---- MODULE Spec2Model ----
(***************************************************************************)
(* A model of pyapp_ext.aiobotocore.dynamodb: the Session operations of    *)
(* session.py over an abstract transport (the aiobotocore client), the     *)
(* record helpers of utils.py and the attribute descriptors of base.py     *)
(* and attributes.py.                                                      *)
(*                                                                         *)
(* Callers are cooperative tasks.  Every `await` on the transport is a     *)
(* suspension point, so each operation is one Begin action (the code up    *)
(* to the first transport await) and one Resume action per transport       *)
(* response (the code from that await to the next one or to the return).   *)
(***************************************************************************)
EXTENDS Integers, Sequences, FiniteSets, TLC

----------------------------------------------------------------------------
(* Bounds of the model *)

\* create requests the transport receives before no further create_table starts
MaxCreate == 2
\* uuid4() draws from UUID(int=1) .. UUID(int=MaxUUID)
MaxUUID == 2
\* datetime.now() draws from day 1 .. day MaxDay of January 2020
MaxDay == 1
\* the Filter objects a behaviour creates
MaxFilters == 3
\* the Attribute instances and the record types a behaviour defines
MaxInstances == 2
MaxClasses == 2
\* the validators of an attribute
MaxValidators == 2
\* the uses of one record instance outside a session
MaxOps == 4
\* the clients that the open() calls of one queue object create
MaxClients == 2
\* the responses with messages that one listen() receives
MaxReceives == 2

Tasks == {"t1", "t2"}

----------------------------------------------------------------------------
(* Python values.  Every value is a record tagged with its type. *)

None == [t |-> "NoneType"]
PyInt(n) == [t |-> "int", v |-> n]
PyBool(b) == [t |-> "bool", b |-> b]
PyStr(s) == [t |-> "str", s |-> s]
PyUUID(n) == [t |-> "UUID", int |-> n]
PyDateTime(d) == [t |-> "datetime", day |-> d]
\* bytes, by their hex digits
PyBytes(hex) == [t |-> "bytes", hex |-> hex]
PySet(elements) == [t |-> "set", elements |-> elements]
PyList(items) == [t |-> "list", items |-> items]
\* a coroutine object that was not awaited, by what awaiting it would give
PyCoroutine(result) == [t |-> "coroutine", result |-> result]

\* the integers int() and str() are computed over
IntRange == 0..12

Digit(d) == CASE d = 0 -> "0" [] d = 1 -> "1" [] d = 2 -> "2" [] d = 3 -> "3"
              [] d = 4 -> "4" [] d = 5 -> "5" [] d = 6 -> "6" [] d = 7 -> "7"
              [] d = 8 -> "8" [] d = 9 -> "9" [] d = 10 -> "a" [] d = 11 -> "b"
              [] d = 12 -> "c" [] d = 13 -> "d" [] d = 14 -> "e" [] d = 15 -> "f"

RECURSIVE IntToStr(_)
\* str(n) of an int
IntToStr(n) == IF n < 0 THEN "-" \o IntToStr(-n)
               ELSE IF n < 10 THEN Digit(n)
               ELSE IntToStr(n \div 10) \o Digit(n % 10)

RECURSIVE HexPad(_, _)
\* '%0*x' % (width, n)
HexPad(n, width) == IF width = 0 THEN ""
                    ELSE HexPad(n \div 16, width - 1) \o Digit(n % 16)

\* str(uuid): 8-4-4-4-12 hex digits (the model's UUIDs are below 16^7)
UUIDToStr(u) == "00000000-0000-0000-0000-" \o HexPad(u.int, 12)

\* datetime.isoformat()
IsoFormat(d) == "2020-01-" \o HexPad(d.day \div 10, 1) \o Digit(d.day % 10) \o "T00:00:00"

\* str(datetime) separates date and time by a space
DateTimeToStr(d) == "2020-01-" \o HexPad(d.day \div 10, 1) \o Digit(d.day % 10) \o " 00:00:00"

\* str(value)
ToStr(value) == CASE value.t = "NoneType" -> "None"
                  [] value.t = "int" -> IntToStr(value.v)
                  [] value.t = "str" -> value.s
                  [] value.t = "UUID" -> UUIDToStr(value)
                  [] value.t = "datetime" -> DateTimeToStr(value)

----------------------------------------------------------------------------
(* Exceptions and call results *)

NoExc == [type |-> "NoExc"]
\* ValidationError(message) keeps a list in .messages and a dict in .message_dict
ValidationErrorList(messages) == [type |-> "ValidationError", messages |-> messages]
ValidationErrorDict(message_dict) == [type |-> "ValidationError", message_dict |-> message_dict]
\* ValidationError.error_messages
error_messages(ex) == IF "message_dict" \in DOMAIN ex THEN ex.message_dict ELSE ex.messages
InvalidKey == [type |-> "InvalidKey"]
MultipleKeys(key_type) == [type |-> "MultipleKeys", key_type |-> key_type]
AttributeError(obj, attr) == [type |-> "AttributeError", obj |-> obj, attr |-> attr]
TableNotFound(table_name) == [type |-> "TableNotFound", table |-> table_name]
NotATable == [type |-> "NotATable"]
KeyError(key) == [type |-> "KeyError", key |-> key]
\* botocore.exceptions.ClientError with ex.response["Error"]["Code"] = code
ClientError(code) == [type |-> "ClientError", code |-> code]
\* a transport failure that is no ClientError (botocore's connection errors)
EndpointConnectionError == [type |-> "EndpointConnectionError"]

Ok(value) == [ok |-> TRUE, value |-> value]
Err(exc) == [ok |-> FALSE, exc |-> exc]

----------------------------------------------------------------------------
(* Dictionaries: functions from a finite set of keys *)

EmptyDict == <<>>
DictSet(d, k, v) == [x \in (DOMAIN d) \cup {k} |-> IF x = k THEN v ELSE d[x]]

----------------------------------------------------------------------------
(* Attribute descriptors (base.py, attributes.py) *)

\* Attribute.__init__: the descriptor's fields before it is bound
Attribute(cls, name, key_type, default_factory) ==
    [cls |-> cls, name |-> name, attr_name |-> "None", null |-> FALSE,
     key_type |-> key_type, default_factory |-> default_factory,
     validators |-> <<>>]

\* Attribute.set_attrs_from_name: self.name = self.name or attr_name
set_attrs_from_name(a, attr_name) ==
    [a EXCEPT !.attr_name = attr_name,
              !.name = IF a.name = "None" THEN attr_name ELSE a.name]

\* the dynamo_type class attribute of each attribute class
dynamo_type(a) == CASE a.cls = "IntegerAttribute" -> "N"
                    [] a.cls = "StringAttribute" -> "S"
                    [] a.cls = "DateTimeAttribute" -> "S"
                    [] a.cls = "UUIDAttribute" -> "S"
                    [] a.cls = "BinaryAttribute" -> "B"
                    [] a.cls = "BooleanAttribute" -> "BOOL"
                    [] a.cls = "StringSetAttribute" -> "SS"
                    [] a.cls = "ListAttribute" -> "L"

\* Attribute.key_schema
key_schema(a) == [AttributeName |-> a.name, KeyType |-> a.key_type]

\* Attribute.attribute_def
attribute_def(a) == [AttributeName |-> a.name, AttributeType |-> dynamo_type(a)]

\* int(value)
IntOf(value) ==
    CASE value.t = "int" -> Ok(PyInt(value.v))
      [] value.t = "UUID" -> Ok(PyInt(value.int))
      [] value.t = "str" ->
            IF \E n \in IntRange : IntToStr(n) = value.s
            THEN Ok(PyInt(CHOOSE n \in IntRange : IntToStr(n) = value.s))
            ELSE Err([type |-> "ValueError"])
      [] OTHER -> Err([type |-> "TypeError"])

\* UUID(value)
UUIDOf(value) ==
    CASE value.t = "str" ->
            IF \E n \in 1..MaxUUID : UUIDToStr(PyUUID(n)) = value.s
            THEN Ok(CHOOSE u \in {PyUUID(n) : n \in 1..MaxUUID} : UUIDToStr(u) = value.s)
            ELSE Err([type |-> "ValueError"])
      [] OTHER -> Err(AttributeError(value.t, "replace"))

\* datetime.fromisoformat(value)
FromIsoFormat(value) ==
    CASE value.t = "str" ->
            IF \E d \in 1..MaxDay : IsoFormat(PyDateTime(d)) = value.s
            THEN Ok(CHOOSE x \in {PyDateTime(d) : d \in 1..MaxDay} : IsoFormat(x) = value.s)
            ELSE Err([type |-> "ValueError"])
      [] OTHER -> Err([type |-> "TypeError"])

\* the conversion's TypeError and ValueError become a ValidationError
Coerce(r, message) ==
    IF r.ok \/ r.exc.type \notin {"TypeError", "ValueError"} THEN r
    ELSE Err(ValidationErrorList(<<message>>))

\* clean_value of each attribute class
clean_value(a, value) ==
    CASE a.cls = "StringAttribute" ->
            IF value.t \in {"NoneType", "str"} THEN Ok(value) ELSE Ok(PyStr(ToStr(value)))
      [] a.cls = "IntegerAttribute" ->
            IF value.t \in {"NoneType", "int"} THEN Ok(value)
            ELSE Coerce(IntOf(value), "Invalid integer")
      [] a.cls = "DateTimeAttribute" ->
            IF value.t \in {"NoneType", "datetime"} THEN Ok(value)
            ELSE Coerce(FromIsoFormat(value), "Invalid date-time")
      [] a.cls = "UUIDAttribute" ->
            IF value.t \in {"NoneType", "UUID"} THEN Ok(value)
            ELSE Coerce(UUIDOf(value), "Invalid UUID")
      [] a.cls = "BooleanAttribute" ->
            IF value = None THEN Ok(None)
            ELSE IF value.t \in {"bool", "int"} /\ (value = PyBool(TRUE) \/ value = PyInt(1))
            THEN Ok(PyBool(TRUE))
            ELSE IF value.t \in {"bool", "int"} /\ (value = PyBool(FALSE) \/ value = PyInt(0))
            THEN Ok(PyBool(FALSE))
            ELSE Err(ValidationErrorList(<<"Invalid bool">>))
      [] a.cls = "BinaryAttribute" -> Ok(None)
      [] a.cls = "StringSetAttribute" ->
            IF value = None THEN Ok(PySet({}))
            ELSE IF value.t = "set" THEN Ok(value)
            ELSE Err(ValidationErrorList(<<"Not a set">>))

\* Attribute.validate
validate(a, value) ==
    IF ~a.null /\ value = None
    THEN Err(ValidationErrorList(<<"A value is required.">>))
    ELSE Ok(value)

\* a loop body that drops the messages of every failure after the first
call_validator_first_only(errors, validator, value) ==
    IF value \in validator.rejects /\ errors = <<>>
    THEN errors \o validator.messages ELSE errors

\* the body of the loop of Attribute.run_validators: errors after the call of
\* one validator; a validator is the set of values it rejects and the messages
\* of the ValidationError it raises for them
call_validator(errors, validator, value) ==
    IF value \in validator.rejects
    THEN errors \o validator.messages ELSE errors

\* Attribute.run_validators after the loop
raise_errors(errors, value) ==
    IF errors # <<>> THEN Err(ValidationErrorList(errors)) ELSE Ok(value)

RECURSIVE run_validators_from(_, _, _, _)
\* the loop of Attribute.run_validators from validator i on
run_validators_from(a, value, i, errors) ==
    IF i > Len(a.validators)
    THEN raise_errors(errors, value)
    ELSE run_validators_from(a, value, i + 1, call_validator(errors, a.validators[i], value))

\* Attribute.run_validators
run_validators(a, value) == run_validators_from(a, value, 1, <<>>)

\* Attribute.clean: clean_value, then validate, then run_validators
AttributeClean(a, value) ==
    LET cv == clean_value(a, value) IN
    IF ~cv.ok THEN cv
    ELSE LET v == validate(a, cv.value) IN
         IF ~v.ok THEN v ELSE run_validators(a, cv.value)

RECURSIVE prepare(_, _)
\* prepare of each attribute class; a set is prepared in the order of its
\* iteration (the model's sets have at most one element)
prepare(a, value) ==
    CASE a.cls = "DateTimeAttribute" ->
            IF value.t = "datetime" THEN Ok(IsoFormat(value))
            ELSE Err(AttributeError(value.t, "isoformat"))
      [] a.cls = "BinaryAttribute" ->
            IF value.t = "bytes" THEN Ok(value.hex)
            ELSE Err(AttributeError(value.t, "hex"))
      [] a.cls = "BooleanAttribute" -> Ok(value)
      [] a.cls = "StringSetAttribute" ->
            IF value.t # "set" THEN Err([type |-> "TypeError"])
            ELSE IF value.elements = {} THEN Ok(<<>>)
            ELSE Ok(<<ToStr(CHOOSE e \in value.elements : TRUE)>>)
      [] a.cls = "ListAttribute" ->
            IF value.t # "list" THEN Err([type |-> "TypeError"])
            ELSE LET ps == [i \in DOMAIN value.items |->
                              prepare(a.containing_attribute, value.items[i])]
                     bad == {i \in DOMAIN ps : ~ps[i].ok}
                 IN IF bad # {} THEN ps[CHOOSE i \in bad : \A j \in bad : i <= j]
                    ELSE Ok([i \in DOMAIN ps |-> ps[i].value])
      [] OTHER -> Ok(ToStr(value))

\* Attribute.to_dynamo: the tagged wire value
AttributeToDynamo(a, value) ==
    IF value = None THEN Ok([tag |-> "NULL", val |-> TRUE])
    ELSE LET p == prepare(a, value) IN
         IF p.ok THEN Ok([tag |-> dynamo_type(a), val |-> p.value]) ELSE p

----------------------------------------------------------------------------
(* Record types (base.py TableMeta, dataclasses.py table) *)

\* a member of a class body: an Attribute instance or a plain class attribute
AttrMember(attr_name, a) == [name |-> attr_name, is_attr |-> TRUE, value |-> a]
PlainMember(name, v) == [name |-> name, is_attr |-> FALSE, plain |-> v]

\* Attribute.__set_name__(owner, name) on the class dict of owner
set_name(owner, a, attr_name) ==
    LET bound == set_attrs_from_name(a, attr_name)
        appended == DictSet(owner, "__attributes__", Append(owner["__attributes__"], bound))
    IN IF bound.key_type = "None" THEN Ok(appended)
       ELSE IF "__table_keys__" \notin DOMAIN owner THEN Err(InvalidKey)
       ELSE IF bound.key_type \in DOMAIN owner["__table_keys__"]
            THEN Err(MultipleKeys(bound.key_type))
       ELSE Ok(DictSet(appended, "__table_keys__",
                       DictSet(owner["__table_keys__"], bound.key_type, bound)))

RECURSIVE SetNames(_, _, _)
\* type.__new__ calls __set_name__ for the members of the body in declaration order
SetNames(owner, body, i) ==
    IF i > Len(body) THEN Ok(owner)
    ELSE IF ~body[i].is_attr
         THEN SetNames(DictSet(owner, body[i].name, body[i].plain), body, i + 1)
         ELSE LET r == set_name(owner, body[i].value, body[i].name) IN
              IF r.ok THEN SetNames(r.value, body, i + 1) ELSE r

\* TableMeta.__new__ and ItemMeta.__new__: class Name(Table, name=name): body
TableMeta(class_name, name, body) ==
    LET declared == {i \in 1..Len(body) : body[i].name = "__tablename__"}
        tablename == IF name # "None" THEN name
                     ELSE IF declared # {} THEN body[CHOOSE i \in declared : TRUE].plain
                     ELSE class_name
        attrs == [k \in {"__tablename__", "__table_keys__", "__attributes__", "__descriptors__"} |->
                    CASE k = "__tablename__" -> tablename
                      [] k = "__table_keys__" -> EmptyDict
                      [] k = "__attributes__" -> <<>>
                      [] k = "__descriptors__" -> TRUE]
    IN SetNames(attrs, body, 1)

\* a dataclass field with the metadata that dataclasses.attribute stores
Field(name, type, key_type, wire_name, default_factory) ==
    [name |-> name, type |-> type, key_type |-> key_type, wire_name |-> wire_name,
     default_factory |-> default_factory]

\* SIMPLE_TYPES
SIMPLE_TYPES(type) == CASE type = "str" -> "StringAttribute"
                        [] type = "int" -> "IntegerAttribute"
                        [] type = "datetime" -> "DateTimeAttribute"
                        [] type = "UUID" -> "UUIDAttribute"

\* _field_to_attribute: no default reaches the Attribute
_field_to_attribute(f) ==
    [Attribute(SIMPLE_TYPES(f.type),
               IF f.wire_name # "None" THEN f.wire_name ELSE f.name,
               f.key_type, "None")
     EXCEPT !.attr_name = f.name]

\* dataclasses.table: @table(name=name) class Name: fields
table(class_name, name, fields) ==
    [k \in {"__table_name__", "__attributes__", "__descriptors__", "__fields__"} |->
        CASE k = "__table_name__" -> IF name # "None" THEN name ELSE class_name
          [] k = "__attributes__" -> [i \in 1..Len(fields) |-> _field_to_attribute(fields[i])]
          [] k = "__descriptors__" -> FALSE
          [] k = "__fields__" -> fields]

\* the record types of the model: Record is sample.py's; NamedRecord also
\* declares __table_name__ in its body; DataRecord is a @table dataclass that
\* is given no name
RecordBody ==
    << AttrMember("id", Attribute("UUIDAttribute", "None", "HASH", "uuid4")),
       AttrMember("created", Attribute("DateTimeAttribute", "None", "RANGE", "now")),
       AttrMember("age", Attribute("IntegerAttribute", "None", "None", "None")) >>

Schemas ==
    [s \in {"Record", "NamedRecord", "DataRecord"} |->
        CASE s = "Record" -> TableMeta("Record", "TestRecord", RecordBody).value
          [] s = "NamedRecord" ->
                TableMeta("NamedRecord", "None",
                          <<PlainMember("__table_name__", "TestRecord")>> \o RecordBody).value
          [] s = "DataRecord" ->
                table("DataRecord", "None",
                      << Field("id", "UUID", "HASH", "None", "uuid4"),
                         Field("created", "datetime", "RANGE", "None", "now"),
                         Field("age", "int", "None", "Age", "none") >>)]

SchemaNames == DOMAIN Schemas
TableNames == {"TestRecord", "DataRecord"}

\* getattr(table, name) on a record type
HasClassAttr(schema, name) == name \in DOMAIN Schemas[schema]

----------------------------------------------------------------------------
(* Record instances: the instance __dict__ and the __updated__ set *)

\* the values a default factory can return
FactoryValues(default_factory) ==
    CASE default_factory = "uuid4" -> {PyUUID(n) : n \in 1..MaxUUID}
      [] default_factory = "now" -> {PyDateTime(d) : d \in 1..MaxDay}
      [] default_factory = "none" -> {None}

\* _create_init: only the arguments given are stored
NewTableItem(schema, kwargs) == [schema |-> schema, d |-> kwargs, updated |-> {}]

RECURSIVE InitFields(_, _, _, _)
\* the dataclass __init__ from field i on: a field that is not given takes its default
InitFields(fields, i, kwargs, d) ==
    IF i > Len(fields) THEN {d}
    ELSE UNION { InitFields(fields, i + 1, kwargs, DictSet(d, fields[i].name, v))
                 : v \in IF fields[i].name \in DOMAIN kwargs
                         THEN {kwargs[fields[i].name]}
                         ELSE FactoryValues(fields[i].default_factory) }

\* the instances the dataclass __init__ can build
NewDataItems(schema, kwargs) ==
    { [schema |-> schema, d |-> d, updated |-> {}]
      : d \in InitFields(Schemas[schema]["__fields__"], 1, kwargs, EmptyDict) }

\* Attribute.get_attr: getattr(obj, attr_name), through Attribute.__get__ when
\* the attribute is a descriptor of the class; a default factory is called anew
get_attr(item, a) ==
    IF a.attr_name \in DOMAIN item.d THEN {item.d[a.attr_name]}
    ELSE IF a.default_factory # "None" THEN FactoryValues(a.default_factory)
    ELSE {None}

\* Attribute.set_attr: setattr(obj, attr_name, value), through Attribute.__set__
set_attr(item, a, value) ==
    IF ~Schemas[item.schema]["__descriptors__"]
    THEN [item EXCEPT !.d = DictSet(item.d, a.attr_name, value)]
    ELSE LET old_value == IF a.attr_name \in DOMAIN item.d THEN item.d[a.attr_name] ELSE None
         IN IF old_value # value
            THEN [item EXCEPT !.d = DictSet(item.d, a.attr_name, value),
                              !.updated = item.updated \cup {a.attr_name}]
            ELSE item

----------------------------------------------------------------------------
(* utils.py *)

\* get_attributes
get_attributes(schema) ==
    IF HasClassAttr(schema, "__attributes__") THEN Ok(Schemas[schema]["__attributes__"])
    ELSE Err(NotATable)

\* key_attributes
key_attributes(schema) ==
    IF HasClassAttr(schema, "__table_keys__") THEN Ok(Schemas[schema]["__table_keys__"])
    ELSE Err(NotATable)

RECURSIVE clean_from(_, _, _, _)
\* the loop of utils.clean from attribute i on: the set of its possible
\* outcomes, each the record as it is left and the result of the call
clean_from(obj, attributes, i, errors) ==
    IF i > Len(attributes)
    THEN {[item |-> obj,
           res |-> IF DOMAIN errors # {} THEN Err(ValidationErrorDict(errors)) ELSE Ok(None)]}
    ELSE LET attribute == attributes[i] IN
         UNION { LET r == AttributeClean(attribute, value) IN
                 IF r.ok
                 THEN clean_from(set_attr(obj, attribute, r.value), attributes, i + 1, errors)
                 ELSE IF r.exc.type = "ValidationError"
                 THEN clean_from(obj, attributes, i + 1,
                                 DictSet(errors, attribute.attr_name, error_messages(r.exc)))
                 ELSE {[item |-> obj, res |-> r]}
               : value \in get_attr(obj, attribute) }

\* a clean that reports one failing attribute only
clean_one_error(obj) ==
    LET attributes == get_attributes(obj.schema)
        one(res) == IF res.ok \/ res.exc.type # "ValidationError" THEN res
                    ELSE LET k == CHOOSE k \in DOMAIN res.exc.message_dict : TRUE
                         IN Err(ValidationErrorDict(DictSet(EmptyDict, k, res.exc.message_dict[k])))
    IN IF attributes.ok
       THEN {[item |-> c.item, res |-> one(c.res)]
             : c \in clean_from(obj, attributes.value, 1, EmptyDict)}
       ELSE {[item |-> obj, res |-> attributes]}

\* utils.clean
clean(obj) ==
    LET attributes == get_attributes(obj.schema) IN
    IF attributes.ok THEN clean_from(obj, attributes.value, 1, EmptyDict)
    ELSE {[item |-> obj, res |-> attributes]}

RECURSIVE to_dynamo_from(_, _, _, _)
\* the loop of utils.to_dynamo from attribute i on: the possible documents
to_dynamo_from(obj, attributes, i, document) ==
    IF i > Len(attributes) THEN {Ok(document)}
    ELSE LET attribute == attributes[i] IN
         UNION { LET w == AttributeToDynamo(attribute, value) IN
                 IF w.ok
                 THEN to_dynamo_from(obj, attributes, i + 1,
                                     DictSet(document, attribute.name, w.value))
                 ELSE {w}
               : value \in get_attr(obj, attribute) }

\* utils.to_dynamo (updates_only = False)
to_dynamo(obj) ==
    LET attributes == get_attributes(obj.schema) IN
    IF attributes.ok THEN to_dynamo_from(obj, attributes.value, 1, EmptyDict)
    ELSE {attributes}

\* a value is an instance of a record type
IsItem(value) == "schema" \in DOMAIN value

RECURSIVE ListAttribute_clean_from(_, _, _)
\* the loop of ListAttribute.clean_value from index idx on (idx counts from 0):
\* each element is passed to utils.clean, which cleans a record instance
\* (with all its fields set, the outcome is the only one)
ListAttribute_clean_from(items, idx, errors) ==
    IF idx >= Len(items)
    THEN IF DOMAIN errors # {} THEN Err(ValidationErrorDict(errors))
         ELSE Ok(PyList(items))
    ELSE LET element == items[idx + 1]
             c == IF IsItem(element) THEN CHOOSE c \in clean(element) : TRUE
                  ELSE [item |-> element, res |-> Err(NotATable)]
         IN IF c.res.ok
            THEN ListAttribute_clean_from([items EXCEPT ![idx + 1] = c.item], idx + 1, errors)
            ELSE IF c.res.exc.type = "ValidationError"
            THEN ListAttribute_clean_from(items, idx + 1,
                                          DictSet(errors, idx, error_messages(c.res.exc)))
            ELSE c.res

\* ListAttribute.clean_value
ListAttribute_clean_value(a, value) ==
    IF value = None THEN Ok(PyList(<<>>))
    ELSE IF ~IsItem(value) /\ value.t = "list"
    THEN ListAttribute_clean_from(value.items, 0, EmptyDict)
    ELSE Err(ValidationErrorList(<<"Not a list">>))

\* self.clean_value(value) of an attribute of any class
CleanValue(a, value) ==
    IF a.cls = "ListAttribute" THEN ListAttribute_clean_value(a, value)
    ELSE clean_value(a, value)

\* item[self.dynamo_type.value] as python holds it: the wire strings are str
WirePython(item) ==
    IF item.tag = "BOOL" THEN item.val
    ELSE IF item.tag \in {"SS", "L"}
    THEN PyList([i \in DOMAIN item.val |-> PyStr(item.val[i])])
    ELSE PyStr(item.val)

\* Attribute.from_dynamo, and ListAttribute.from_dynamo: clean_value is a
\* coroutine function, and neither awaits what it returns
from_dynamo(a, item) ==
    IF item.tag = "NULL" THEN Ok(None)
    ELSE IF item.tag # dynamo_type(a) THEN Err([type |-> "RuntimeWarning"])
    ELSE IF a.cls = "ListAttribute" THEN Ok(None)
    ELSE Ok(PyCoroutine(CleanValue(a, WirePython(item))))

\* utils.to_dynamo_key (key_type = KeyType.Hash)
to_dynamo_key(obj) ==
    LET keys == key_attributes(obj.schema) IN
    IF ~keys.ok THEN {keys}
    ELSE IF "HASH" \notin DOMAIN keys.value THEN {Err(KeyError("HASH"))}
    ELSE LET attribute == keys.value["HASH"] IN
         { AttributeToDynamo(attribute, value) : value \in get_attr(obj, attribute) }

----------------------------------------------------------------------------
(* The state *)

VARIABLES
    client,   \* Session.client: "client", or "None" once close() has reset it
    tables,   \* the transport's remote store: the names of the tables that exist
    calls,    \* the transport as a spy: how often close and create_table were called
    item,     \* the record instance the callers share
    task,     \* per caller: the await it is suspended at, the call and its result
    filters,  \* the Filter objects that exist, in the order of their creation
    dicts,    \* the dict objects that the Filter objects' kwargs refer to
    conv,     \* an attribute, a value, and what the attribute's conversions gave for it
    defs,     \* the Attribute instances and record types defined, and the last definition
    factory,  \* settings.AWS_CREDENTIALS["default"] and the session last created from it
    cleaning, \* one call of Attribute.clean: where it is, what it called and its result
    rec,      \* a record instance used without a session, and the last use of it
    clients,  \* settings.AWS_SQS, the ClientFactory's cache and its last create call
    queue     \* an SQS queue object, the clients its open() calls created, and its call

session_vars == <<client, tables, calls, item, task>>
\* the state of the specifications that follow no session
pure_vars == <<filters, dicts, conv, defs, factory, cleaning, rec, clients, queue>>
vars == <<session_vars, pure_vars>>

\* the transport methods whose calls are counted
Counted == {"close", "create_table"}

NoItem == [schema |-> "None"]
\* default_settings.py: AWS_CREDENTIALS = {"default": {}}, and no session created
NoFactory == [settings |-> EmptyDict, created |-> [made |-> FALSE]]
\* no call of Attribute.clean
NoCleaning == [pc |-> "None"]
\* SQSBase.__init__: no client (0) and no queue URL; no client was created,
\* no call was made
NewQueue ==
    [_client |-> 0, _queue_url |-> "None", created |-> <<>>, pc |-> "idle", op |-> "None",
     local |-> 0, before |-> 0, resp |-> [ok |-> TRUE, value |-> [t |-> "NoneType"]],
     msgs |-> <<>>, received |-> <<>>, receives |-> 0, log |-> <<>>,
     res |-> [ok |-> TRUE, value |-> [t |-> "NoneType"]]]
\* default_settings.py defines no AWS_SQS; no client created
NoClients == [AWS_SQS |-> EmptyDict, original |-> EmptyDict, cached |-> FALSE,
              last |-> [made |-> FALSE]]
\* no record instance: nothing assigned and nothing done
NoRec == [item |-> NoItem, assigned |-> EmptyDict, ops |-> 0, last |-> [op |-> "None"]]
\* nothing defined yet
NoDefs == [instances |-> <<>>, classes |-> <<>>, last |-> [how |-> "None"]]
\* a conversion that was not applied
Unset == [t |-> "unset"]
NoConv == [attribute |-> Unset, value |-> Unset, cleaned |-> Unset, wire |-> Unset,
           python |-> Unset]
NoCall == [pc |-> "idle", op |-> "None"]

\* what the keyword arguments of a record constructor are drawn from
ItemKwargs ==
    { EmptyDict,
      [age |-> PyInt(10)],
      [age |-> PyStr("10")],
      [age |-> PyStr("x")],
      [id |-> PyStr("x"), age |-> PyStr("x")],
      [id |-> PyStr("x"), age |-> PyStr("10")],
      [id |-> PyUUID(1), created |-> PyDateTime(1), age |-> PyInt(10)] }

\* python values returned by the calls
PyDict(table_name) == [t |-> "dict", TableName |-> table_name]
PyTuple(read_cap, write_cap) == [t |-> "tuple", read_cap |-> read_cap, write_cap |-> write_cap]

Init ==
    /\ client = "client"
    /\ tables \in SUBSET TableNames
    /\ calls = [v \in Counted |-> 0]
    /\ item = NoItem
    /\ task = [t \in Tasks |-> NoCall]
    /\ filters = <<>>
    /\ dicts = <<>>
    /\ conv = NoConv
    /\ defs = NoDefs
    /\ factory = NoFactory
    /\ cleaning = NoCleaning
    /\ rec = NoRec
    /\ clients = NoClients
    /\ queue = NewQueue

----------------------------------------------------------------------------
(* The transport: the aiobotocore client behind Session.client *)

ErrorCodes == {"ResourceNotFoundException", "ResourceInUseException", "AccessDeniedException"}

\* a stored item, as the store returns it
StoredItem == [id |-> [tag |-> "S", val |-> UUIDToStr(PyUUID(1))]]

\* the pages a scan or a query of an existing table can return: the items of
\* the page and LastEvaluatedKey, which the store sets to the key of the page's
\* last item when more results remain and leaves out (None) on the last page
Pages ==
    { [Items |-> <<>>, LastEvaluatedKey |-> None],
      [Items |-> <<StoredItem>>, LastEvaluatedKey |-> None],
      [Items |-> <<StoredItem>>, LastEvaluatedKey |-> StoredItem] }

\* the responses of the remote store to a request, each with the tables after it
Served(req) ==
    IF req.verb = "create_table"
    THEN IF req.TableName \in tables
         THEN {[res |-> Err(ClientError("ResourceInUseException")), tables |-> tables]}
         ELSE {[res |-> Ok([TableDescription |-> PyDict(req.TableName)]),
                tables |-> tables \cup {req.TableName}]}
    ELSE IF req.TableName \notin tables
    THEN {[res |-> Err(ClientError("ResourceNotFoundException")), tables |-> tables]}
    ELSE IF req.verb = "describe_table"
    THEN {[res |-> Ok([Table |-> PyDict(req.TableName)]), tables |-> tables]}
    ELSE IF req.verb \in {"put_item", "delete_item"}
    THEN {[res |-> Ok([Attributes |-> EmptyDict]), tables |-> tables]}
    ELSE {[res |-> Ok([Items |-> p.Items, Count |-> Len(p.Items),
                       LastEvaluatedKey |-> p.LastEvaluatedKey]),
           tables |-> tables] : p \in Pages}

\* a request is served, or fails with a client error the store did not cause
\* (permission, throttling) or with a connection error
Respond(req) ==
    Served(req)
    \cup {[res |-> Err(ClientError("AccessDeniedException")), tables |-> tables]}
    \cup {[res |-> Err(EndpointConnectionError), tables |-> tables]}

----------------------------------------------------------------------------
(* Callers *)

Idle(t) == task[t].pc = "idle"
\* the callers that are inside create_table
Creating == {t \in Tasks : task[t].pc \in {"create_describe", "create"}}

\* the call returns or raises: the task keeps the call and its result
Finish(t, call, res) ==
    task' = [task EXCEPT ![t] = [call EXCEPT !.pc = "idle", !.res = res]]

\* the suspended call receives the transport's response r and returns or raises
Resume(t, r, res) ==
    task' = [task EXCEPT ![t] = [@ EXCEPT !.pc = "idle", !.resps = Append(@, r), !.res = res]]

\* the call sends req to the transport and is suspended at the await pc
Send(t, call, pc, req) ==
    /\ task' = [task EXCEPT ![t] = [call EXCEPT !.pc = pc, !.reqs = Append(call.reqs, req)]]
    /\ calls' = IF req.verb \in Counted THEN [calls EXCEPT ![req.verb] = @ + 1] ELSE calls

\* a call as it starts
Call(op, args) ==
    [pc |-> "running", op |-> op, args |-> args, reqs |-> <<>>, resps |-> <<>>, res |-> Ok(None)]

\* the request a suspended task waits on
Pending(t) == task[t].reqs[Len(task[t].reqs)]

\* caller t constructs the record instance that the behaviour follows:
\* Record(**kwargs)
Construct(t, schema, kwargs) ==
    /\ UNCHANGED pure_vars
    /\ Idle(t)
    /\ item = NoItem
    /\ item' \in IF Schemas[schema]["__descriptors__"]
                 THEN {NewTableItem(schema, kwargs)}
                 ELSE NewDataItems(schema, kwargs)
    /\ UNCHANGED <<client, tables, calls, task>>

----------------------------------------------------------------------------
(* Session (session.py) *)

\* Session.close, also as called by Session.__aexit__: up to the await
BeginClose(t, op) ==
    /\ UNCHANGED pure_vars
    /\ Idle(t)
    /\ IF client # "None"
       THEN Send(t, Call(op, EmptyDict), "close", [verb |-> "close"])
       ELSE /\ Finish(t, Call(op, EmptyDict), Ok(None))
            /\ UNCHANGED calls
    /\ UNCHANGED <<client, tables, item>>

\* a close that returns without dropping the client
ResumeCloseKeepsClient(t) ==
    /\ UNCHANGED pure_vars
    /\ task[t].pc = "close"
    /\ Resume(t, Ok(None), Ok(None))
    /\ UNCHANGED <<client, tables, calls, item>>

\* Session.close: client.close() has returned
ResumeClose(t) ==
    /\ UNCHANGED pure_vars
    /\ task[t].pc = "close"
    /\ client' = "None"
    /\ Resume(t, Ok(None), Ok(None))
    /\ UNCHANGED <<tables, calls, item>>

\* Session.describe_table from the await on: the result for a transport response
describe_result(r, table_name) ==
    IF r.ok THEN Ok(r.value.Table)
    ELSE IF r.exc.type = "ClientError"
         THEN IF r.exc.code = "ResourceNotFoundException"
              THEN Err(TableNotFound(table_name))
              ELSE Ok(None)
         ELSE r

\* Session.describe_table: up to the await
BeginDescribe(t, table_name) ==
    /\ UNCHANGED pure_vars
    /\ Idle(t)
    /\ LET call == Call("describe_table", [table_name |-> table_name]) IN
       IF client = "None"
       THEN /\ Finish(t, call, Err(AttributeError("NoneType", "describe_table")))
            /\ UNCHANGED calls
       ELSE Send(t, call, "describe", [verb |-> "describe_table", TableName |-> table_name])
    /\ UNCHANGED <<client, tables, item>>

\* Session.describe_table: the transport has answered
ResumeDescribe(t) ==
    /\ UNCHANGED pure_vars
    /\ task[t].pc = "describe"
    /\ \E r \in Respond(Pending(t)) :
          /\ tables' = r.tables
          /\ Resume(t, r.res, describe_result(r.res, task[t].args.table_name))
    /\ UNCHANGED <<client, calls, item>>

\* a create request that defines every attribute of the schema, keyed or not
create_kwargs_unfiltered(schema, provisioned_throughput) ==
    LET attrs == Schemas[schema]["__attributes__"]
        kwargs == [verb |-> "create_table",
                   AttributeDefinitions |-> [i \in 1..Len(attrs) |-> attribute_def(attrs[i])],
                   TableName |-> Schemas[schema]["__table_name__"],
                   KeySchema |-> [i \in 1..Len(attrs) |-> key_schema(attrs[i])],
                   BillingMode |-> IF provisioned_throughput = None
                                   THEN "PAY_PER_REQUEST" ELSE "PROVISIONED"]
    IN IF provisioned_throughput = None THEN kwargs
       ELSE [k \in (DOMAIN kwargs) \cup {"ProvisionedThroughput"} |->
               IF k = "ProvisionedThroughput"
               THEN [ReadCapacityUnits |-> provisioned_throughput.read_cap,
                     WriteCapacityUnits |-> provisioned_throughput.write_cap]
               ELSE kwargs[k]]

\* Session.create_table: the keyword arguments of the create request
create_kwargs(schema, provisioned_throughput) ==
    LET attrs == Schemas[schema]["__attributes__"]
        keyed == SelectSeq(attrs, LAMBDA a : a.key_type # "None")
        kwargs == [verb |-> "create_table",
                   AttributeDefinitions |-> [i \in 1..Len(keyed) |-> attribute_def(keyed[i])],
                   TableName |-> Schemas[schema]["__table_name__"],
                   KeySchema |-> [i \in 1..Len(keyed) |-> key_schema(keyed[i])],
                   BillingMode |-> IF provisioned_throughput = None
                                   THEN "PAY_PER_REQUEST" ELSE "PROVISIONED"]
    IN IF provisioned_throughput = None THEN kwargs
       ELSE [k \in (DOMAIN kwargs) \cup {"ProvisionedThroughput"} |->
               IF k = "ProvisionedThroughput"
               THEN [ReadCapacityUnits |-> provisioned_throughput.read_cap,
                     WriteCapacityUnits |-> provisioned_throughput.write_cap]
               ELSE kwargs[k]]

\* Session.create_table from `attrs = get_attributes(table)` to the await
CreateRequest(t, call) ==
    LET schema == call.args.table IN
    IF ~get_attributes(schema).ok
    THEN Finish(t, call, get_attributes(schema)) /\ UNCHANGED calls
    ELSE IF ~HasClassAttr(schema, "__table_name__")
    THEN Finish(t, call, Err(AttributeError(schema, "__table_name__"))) /\ UNCHANGED calls
    ELSE IF client = "None"
    THEN Finish(t, call, Err(AttributeError("NoneType", "create_table"))) /\ UNCHANGED calls
    ELSE Send(t, call, "create", create_kwargs(schema, call.args.provisioned_throughput))

\* Session.create_table: up to the first await
BeginCreate(t, schema, provisioned_throughput, check_exists) ==
    /\ UNCHANGED pure_vars
    /\ Idle(t)
    /\ calls["create_table"] + Cardinality(Creating) < MaxCreate
    /\ LET call == Call("create_table",
                        [table |-> schema, provisioned_throughput |-> provisioned_throughput,
                         check_exists |-> check_exists]) IN
       IF check_exists
       THEN IF ~HasClassAttr(schema, "__table_name__")
            THEN /\ Finish(t, call, Err(AttributeError(schema, "__table_name__")))
                 /\ UNCHANGED calls
            ELSE IF client = "None"
            THEN /\ Finish(t, call, Err(AttributeError("NoneType", "describe_table")))
                 /\ UNCHANGED calls
            ELSE Send(t, call, "create_describe",
                      [verb |-> "describe_table", TableName |-> Schemas[schema]["__table_name__"]])
       ELSE CreateRequest(t, call)
    /\ UNCHANGED <<client, tables, item>>

\* Session.create_table: describe_table has answered
ResumeCreateDescribe(t) ==
    /\ UNCHANGED pure_vars
    /\ task[t].pc = "create_describe"
    /\ \E r \in Respond(Pending(t)) :
          LET d == describe_result(r.res, Pending(t).TableName) IN
          /\ tables' = r.tables
          /\ IF ~d.ok /\ d.exc.type = "TableNotFound"
             THEN CreateRequest(t, [task[t] EXCEPT !.resps = Append(@, r.res)])
             ELSE Resume(t, r.res, d) /\ UNCHANGED calls
    /\ UNCHANGED <<client, item>>

\* Session.create_table from the await on the create request on
create_result(r) == IF r.ok THEN Ok(r.value.TableDescription) ELSE r

\* Session.create_table: the create request has been answered
ResumeCreate(t) ==
    /\ UNCHANGED pure_vars
    /\ task[t].pc = "create"
    /\ \E r \in Respond(Pending(t)) :
          /\ tables' = r.tables
          /\ Resume(t, r.res, create_result(r.res))
    /\ UNCHANGED <<client, calls, item>>

\* a clean step whose failure is dropped
put_clean_ignored(obj, do_clean) ==
    IF do_clean THEN {[item |-> c.item, res |-> Ok(None)] : c \in clean(obj)}
    ELSE {[item |-> obj, res |-> Ok(None)]}

\* Session.put_item: what the clean step leaves of the record, with its result
put_clean(obj, do_clean) ==
    IF do_clean THEN clean(obj) ELSE {[item |-> obj, res |-> Ok(None)]}

\* Session.put_item from `document = to_dynamo(item)` to the await
PutRequest(t, call, obj) ==
    \E document \in to_dynamo(obj) :
       IF ~document.ok THEN Finish(t, call, document) /\ UNCHANGED calls
       ELSE IF client = "None"
       THEN Finish(t, call, Err(AttributeError("NoneType", "put_item"))) /\ UNCHANGED calls
       ELSE IF ~HasClassAttr(obj.schema, "__table_name__")
       THEN Finish(t, call, Err(AttributeError(obj.schema, "__table_name__"))) /\ UNCHANGED calls
       ELSE Send(t, call, "put",
                 [verb |-> "put_item", TableName |-> Schemas[obj.schema]["__table_name__"],
                  Item |-> document.value, ReturnValues |-> "NONE"])

\* Session.put_item: up to the await
BeginPut(t, do_clean) ==
    /\ UNCHANGED pure_vars
    /\ Idle(t)
    /\ item # NoItem
    /\ LET call == Call("put_item", [item |-> item, clean |-> do_clean]) IN
       \E c \in put_clean(item, do_clean) :
          /\ item' = c.item
          /\ IF ~c.res.ok
             THEN Finish(t, call, c.res) /\ UNCHANGED calls
             ELSE PutRequest(t, call, c.item)
    /\ UNCHANGED <<client, tables>>

\* Session.put_item from the await on: the result for a transport response
put_result(r, table_name) ==
    IF r.ok THEN Ok(None)
    ELSE IF r.exc.type = "ClientError" /\ r.exc.code = "ResourceNotFoundException"
         THEN Err(TableNotFound(table_name))
         ELSE r

\* Session.put_item: the transport has answered
ResumePut(t) ==
    /\ UNCHANGED pure_vars
    /\ task[t].pc = "put"
    /\ \E r \in Respond(Pending(t)) :
          /\ tables' = r.tables
          /\ Resume(t, r.res, put_result(r.res, Pending(t).TableName))
    /\ UNCHANGED <<client, calls, item>>

\* Session.delete_item: up to the await
BeginDelete(t) ==
    /\ UNCHANGED pure_vars
    /\ Idle(t)
    /\ item # NoItem
    /\ LET call == Call("delete_item", EmptyDict) IN
       \E key \in to_dynamo_key(item) :
          IF ~key.ok THEN Finish(t, call, key) /\ UNCHANGED calls
          ELSE IF client = "None"
          THEN Finish(t, call, Err(AttributeError("NoneType", "delete_item"))) /\ UNCHANGED calls
          ELSE IF ~HasClassAttr(item.schema, "__table_name__")
          THEN Finish(t, call, Err(AttributeError(item.schema, "__table_name__"))) /\ UNCHANGED calls
          ELSE Send(t, call, "delete",
                    [verb |-> "delete_item", TableName |-> Schemas[item.schema]["__table_name__"],
                     Key |-> key.value, ConditionExpression |-> None,
                     ExpressionAttributeValues |-> None, ReturnValues |-> "NONE"])
    /\ UNCHANGED <<client, tables, item>>

\* a delete that reports a missing table or item
delete_result_raises(r) ==
    IF r.ok THEN Ok(None)
    ELSE IF r.exc.type = "ClientError" /\ r.exc.code = "ResourceNotFoundException"
         THEN Err(TableNotFound("TestRecord"))
         ELSE r

\* Session.delete_item from the await on: the result for a transport response
delete_result(r) ==
    IF r.ok THEN Ok(None)
    ELSE IF r.exc.type = "ClientError" /\ r.exc.code = "ResourceNotFoundException"
         THEN Ok(None)
         ELSE r

\* Session.delete_item: the transport has answered
ResumeDelete(t) ==
    /\ UNCHANGED pure_vars
    /\ task[t].pc = "delete"
    /\ \E r \in Respond(Pending(t)) :
          /\ tables' = r.tables
          /\ Resume(t, r.res, delete_result(r.res))
    /\ UNCHANGED <<client, calls, item>>

\* Session.get_item: the whole call, which has no await
GetItem(t, schema, key) ==
    /\ UNCHANGED pure_vars
    /\ Idle(t)
    /\ LET call == Call("get_item", [table |-> schema, key |-> key])
           keys == key_attributes(schema)
       IN IF ~keys.ok THEN Finish(t, call, keys) ELSE Finish(t, call, Ok(None))
    /\ UNCHANGED <<client, tables, calls, item>>

----------------------------------------------------------------------------
(* Filter, Scan, Query (session.py) *)

\* Session.scan and Session.query: a Filter with no arguments
scan(schema) == [type |-> "Scan", table |-> schema, kwargs |-> EmptyDict]
query(schema) == [type |-> "Query", table |-> schema, kwargs |-> EmptyDict]

\* Filter.limit
limit(filter, value) == [filter EXCEPT !.kwargs = DictSet(filter.kwargs, "Limit", value)]

\* Filter.consistent
consistent(filter, value) ==
    [filter EXCEPT !.kwargs = DictSet(filter.kwargs, "ConsistentRead", value)]

\* the filters the callers execute
Filters == {scan(s) : s \in SchemaNames} \cup {consistent(query("NamedRecord"), TRUE)}

\* Scan._execute and Query._execute: up to the await; how is "iter" for
\* Filter.__aiter__ and "count" for Filter.count
BeginExecute(t, filter, how) ==
    /\ UNCHANGED pure_vars
    /\ Idle(t)
    /\ LET call == Call(how, [filter |-> filter])
           verb == IF filter.type = "Scan" THEN "scan" ELSE "query"
           kwargs == IF how = "count" THEN DictSet(filter.kwargs, "Select", "COUNT")
                     ELSE filter.kwargs
       IN IF client = "None"
          THEN Finish(t, call, Err(AttributeError("NoneType", verb))) /\ UNCHANGED calls
          ELSE IF ~HasClassAttr(filter.table, "__table_name__")
          THEN Finish(t, call, Err(AttributeError(filter.table, "__table_name__"))) /\ UNCHANGED calls
          ELSE Send(t, call, "execute",
                    [verb |-> verb, TableName |-> Schemas[filter.table]["__table_name__"],
                     kwargs |-> kwargs])
    /\ UNCHANGED <<client, tables, item>>

\* an execution that lets the transport's not-found error through
execute_result_untranslated(r, table_name) == r

\* Scan._execute and Query._execute from the await on
execute_result(r, table_name) ==
    IF r.ok THEN r
    ELSE IF r.exc.type = "ClientError" /\ r.exc.code = "ResourceNotFoundException"
         THEN Err(TableNotFound(table_name))
         ELSE r

\* Filter.__aiter__ yields result["Items"]; Filter.count returns result["Count"]
filter_result(r, how) ==
    IF ~r.ok THEN r
    ELSE IF how = "count" THEN Ok(PyInt(r.value.Count))
    ELSE Ok(PyList(r.value.Items))

\* a filter's request has been answered
ResumeExecute(t) ==
    /\ UNCHANGED pure_vars
    /\ task[t].pc = "execute"
    /\ \E r \in Respond(Pending(t)) :
          /\ tables' = r.tables
          /\ Resume(t, r.res,
                    filter_result(execute_result(r.res, Pending(t).TableName), task[t].op))
    /\ UNCHANGED <<client, calls, item>>

----------------------------------------------------------------------------
(* The specification *)

Throughputs == {None, PyTuple(1, 2)}

\* the calls of caller t on the session alone
SessionStep(t, throughputs, checks) ==
    \/ \E op \in {"close", "__aexit__"} : BeginClose(t, op)
    \/ ResumeClose(t)
    \/ \E n \in TableNames : BeginDescribe(t, n)
    \/ ResumeDescribe(t)
    \/ \E s \in SchemaNames, p \in throughputs, c \in checks : BeginCreate(t, s, p, c)
    \/ ResumeCreateDescribe(t)
    \/ ResumeCreate(t)

\* the calls of caller t that take a record or a filter
RecordStep(t) ==
    \/ \E c \in BOOLEAN : BeginPut(t, c)
    \/ ResumePut(t)
    \/ BeginDelete(t)
    \/ ResumeDelete(t)
    \/ \E s \in SchemaNames : GetItem(t, s, PyUUID(1))
    \/ \E f \in Filters, how \in {"iter", "count"} : BeginExecute(t, f, how)
    \/ ResumeExecute(t)

\* one caller, one operation in flight on the session at a time
Next ==
    \/ \E s \in SchemaNames, kwargs \in ItemKwargs : Construct("t1", s, kwargs)
    \/ SessionStep("t1", Throughputs, BOOLEAN)
    \/ RecordStep("t1")

Spec == Init /\ [][Next]_vars

\* two callers whose calls on the session interleave at the awaits; each
\* create_table is made with the defaults (check_exists=True)
NextInterleaved == \E t \in Tasks : SessionStep(t, {None}, {TRUE})

Interleaved == Init /\ [][NextInterleaved]_vars

----------------------------------------------------------------------------
(* Filter as a builder: the objects behind limit() and consistent() *)

\* no copy: the receiver's own dict object
kwargs_shared(heap, ref) == [heap |-> heap, ref |-> ref]

\* kwargs.copy(): a new dict object with the entries of the dict at ref
kwargs_copy(heap, ref) == [heap |-> Append(heap, heap[ref]), ref |-> Len(heap) + 1]

\* Filter.__init__: self.kwargs = kwargs or {}, where an empty dict is falsy
Filter__init__(type, schema, heap, ref, made_by) ==
    IF ref = 0 \/ heap[ref] = EmptyDict
    THEN [heap |-> Append(heap, EmptyDict),
          filter |-> [type |-> type, table |-> schema, kwargs |-> Len(heap) + 1,
                      made_by |-> made_by]]
    ELSE [heap |-> heap,
          filter |-> [type |-> type, table |-> schema, kwargs |-> ref, made_by |-> made_by]]

\* the body shared by Filter.limit and Filter.consistent on the filter object i:
\* copy the kwargs, set the entry, build a filter of the same type
Chained(i, key, value) ==
    LET self == filters[i]
        c == kwargs_copy(dicts, self.kwargs)
        set == [c.heap EXCEPT ![c.ref] = DictSet(@, key, value)]
        new == Filter__init__(self.type, self.table, set, c.ref,
                              Append(self.made_by, [key |-> key, value |-> value]))
    IN /\ dicts' = new.heap
       /\ filters' = Append(filters, new.filter)

\* Session.scan(table) and Session.query(table)
NewFilter(type, schema) ==
    /\ Len(filters) < MaxFilters
    /\ LET new == Filter__init__(type, schema, dicts, 0, <<>>) IN
       /\ dicts' = new.heap
       /\ filters' = Append(filters, new.filter)
    /\ UNCHANGED <<session_vars, queue, clients, rec, cleaning, factory, conv, defs>>

\* Filter.limit(value) on the filter object i
Limit(i, value) ==
    /\ Len(filters) < MaxFilters
    /\ i \in DOMAIN filters
    /\ Chained(i, "Limit", PyInt(value))
    /\ UNCHANGED <<session_vars, queue, clients, rec, cleaning, factory, conv, defs>>

\* Filter.consistent(value) on the filter object i
Consistent(i, value) ==
    /\ Len(filters) < MaxFilters
    /\ i \in DOMAIN filters
    /\ Chained(i, "ConsistentRead", PyBool(value))
    /\ UNCHANGED <<session_vars, queue, clients, rec, cleaning, factory, conv, defs>>

NextBuilder ==
    \/ \E type \in {"Scan", "Query"}, s \in SchemaNames : NewFilter(type, s)
    \/ \E i \in 1..MaxFilters, value \in {10, 20} : Limit(i, value)
    \/ \E i \in 1..MaxFilters, value \in BOOLEAN : Consistent(i, value)

Builder == Init /\ [][NextBuilder]_vars

----------------------------------------------------------------------------
(* The conversions of an attribute: clean_value, to_dynamo, from_dynamo *)

\* ListAttribute.__init__
ListAttribute(containing_attribute, name) ==
    [cls |-> "ListAttribute", name |-> name, attr_name |-> "None", null |-> FALSE,
     key_type |-> "None", default_factory |-> "None", validators |-> <<>>,
     containing_attribute |-> containing_attribute]

\* an attribute of each class, bound to the field name "field"
ConvAttributes ==
    { set_attrs_from_name(Attribute(cls, "None", "None", "None"), "field")
      : cls \in {"StringAttribute", "IntegerAttribute", "DateTimeAttribute", "UUIDAttribute",
                 "BooleanAttribute", "BinaryAttribute", "StringSetAttribute"} }
    \cup { set_attrs_from_name(
              ListAttribute(Attribute("StringAttribute", "None", "None", "None"), "None"),
              "field") }

\* record instances with every field given, valid and not
FullItem(age) ==
    NewTableItem("NamedRecord", [id |-> PyUUID(1), created |-> PyDateTime(1), age |-> age])

\* the values of the attribute's python type among the inputs
ValidValues(a) ==
    CASE a.cls = "StringAttribute" -> {PyStr("a")}
      [] a.cls = "IntegerAttribute" -> {PyInt(10)}
      [] a.cls = "DateTimeAttribute" -> {PyDateTime(1)}
      [] a.cls = "UUIDAttribute" -> {PyUUID(1)}
      [] a.cls = "BooleanAttribute" -> {PyBool(TRUE), PyBool(FALSE)}
      [] a.cls = "BinaryAttribute" -> {PyBytes("01")}
      [] a.cls = "StringSetAttribute" -> {PySet({}), PySet({PyStr("a")})}
      [] a.cls = "ListAttribute" ->
            {PyList(<<>>), PyList(<<PyStr("a")>>), PyList(<<PyStr("a"), PyStr("c")>>)}

\* the values the conversions of an attribute are applied to
ConvInputs(a) ==
    {None} \cup ValidValues(a) \cup
    CASE a.cls = "StringAttribute" -> {PyInt(5)}
      [] a.cls = "IntegerAttribute" -> {PyStr("10"), PyStr("x")}
      [] a.cls = "DateTimeAttribute" -> {PyStr(IsoFormat(PyDateTime(1))), PyStr("x")}
      [] a.cls = "UUIDAttribute" -> {PyStr(UUIDToStr(PyUUID(1))), PyStr("x")}
      [] a.cls = "BooleanAttribute" -> {PyInt(1), PyStr("x")}
      [] a.cls = "BinaryAttribute" -> {}
      [] a.cls = "StringSetAttribute" -> {PyStr("a")}
      [] a.cls = "ListAttribute" ->
            {PyStr("a"), PyList(<<PyStr("a"), PyInt(5), PyStr("c")>>),
             PyList(<<FullItem(PyInt(10)), FullItem(PyStr("x"))>>)}

ConvInit ==
    /\ client = "client"
    /\ tables = {}
    /\ calls = [v \in Counted |-> 0]
    /\ item = NoItem
    /\ task = [t \in Tasks |-> NoCall]
    /\ filters = <<>>
    /\ dicts = <<>>
    /\ defs = NoDefs
    /\ factory = NoFactory
    /\ cleaning = NoCleaning
    /\ rec = NoRec
    /\ clients = NoClients
    /\ queue = NewQueue
    /\ \E a \in ConvAttributes : \E value \in ConvInputs(a) :
          conv = [NoConv EXCEPT !.attribute = a, !.value = value]

\* await attribute.clean_value(value)
ApplyCleanValue ==
    /\ conv.cleaned = Unset
    /\ conv' = [conv EXCEPT !.cleaned = CleanValue(conv.attribute, conv.value)]
    /\ UNCHANGED <<session_vars, queue, clients, rec, cleaning, factory, filters, dicts, defs>>

\* attribute.to_dynamo(value), for None and for a value of the attribute's type
ApplyToDynamo ==
    /\ conv.wire = Unset
    /\ conv.value = None \/ conv.value \in ValidValues(conv.attribute)
    /\ conv' = [conv EXCEPT !.wire = AttributeToDynamo(conv.attribute, conv.value)]
    /\ UNCHANGED <<session_vars, queue, clients, rec, cleaning, factory, filters, dicts, defs>>

\* attribute.from_dynamo(item) for the item that to_dynamo gave
ApplyFromDynamo ==
    /\ conv.wire # Unset
    /\ conv.wire.ok
    /\ conv.python = Unset
    /\ conv' = [conv EXCEPT !.python = from_dynamo(conv.attribute, conv.wire.value)]
    /\ UNCHANGED <<session_vars, queue, clients, rec, cleaning, factory, filters, dicts, defs>>

NextConversions == ApplyCleanValue \/ ApplyToDynamo \/ ApplyFromDynamo

Conversions == ConvInit /\ [][NextConversions]_vars

----------------------------------------------------------------------------
(* Defining record types: class X(Table) and @table *)

\* an exception of __set_name__ leaves type.__new__ as it is, or wrapped in a
\* RuntimeError that it is the cause of, depending on the interpreter
Raised(r) ==
    IF r.ok THEN {r}
    ELSE {r, Err([type |-> "RuntimeError", cause |-> r.exc])}

\* x = SomeAttribute(key_type=key_type): a new instance, not bound yet
NewAttribute(cls, key_type) ==
    /\ Len(defs.instances) < MaxInstances
    /\ defs' = [defs EXCEPT !.instances = Append(@, Attribute(cls, "None", key_type, "None"))]
    /\ UNCHANGED <<session_vars, queue, clients, rec, cleaning, factory, filters, dicts, conv>>

\* class X(Table): a = <instance r1>; b = <instance r2>
\* __set_name__ binds the instances in this order, each before its key check;
\* the class holds the instances themselves, and last.res is Ok(None) when the
\* class statement completed
DefineTable(r1, r2) ==
    /\ Len(defs.classes) < MaxClasses
    /\ {r1, r2} \subseteq DOMAIN defs.instances
    /\ LET first == defs.instances[r1]
           bound1 == [defs.instances EXCEPT ![r1] = set_attrs_from_name(first, "a")]
           second == bound1[r2]
           bound2 == [bound1 EXCEPT ![r2] = set_attrs_from_name(second, "b")]
           r == TableMeta("X", "None", <<AttrMember("a", first), AttrMember("b", second)>>)
       IN \E res \in Raised(r) :
             defs' = [instances |-> bound2,
                      classes |-> IF res.ok
                                  THEN Append(defs.classes, [how |-> "Table", refs |-> <<r1, r2>>])
                                  ELSE defs.classes,
                      last |-> [how |-> "Table",
                                key_types |-> <<first.key_type, second.key_type>>,
                                rebinding |-> \/ r1 = r2
                                              \/ first.attr_name # "None"
                                              \/ second.attr_name # "None",
                                res |-> IF res.ok THEN Ok(None) ELSE res]]
    /\ UNCHANGED <<session_vars, queue, clients, rec, cleaning, factory, filters, dicts, conv>>

\* @table class X: a: str = attribute(key_type=k1); b: str = attribute(key_type=k2)
DefineDataclass(k1, k2) ==
    /\ Len(defs.classes) < MaxClasses
    /\ LET klass == table("X", "None", << Field("a", "str", k1, "None", "none"),
                                          Field("b", "str", k2, "None", "none") >>)
       IN defs' = [defs EXCEPT !.classes = Append(@, [how |-> "table",
                                                      attributes |-> klass["__attributes__"]]),
                               !.last = [how |-> "table", key_types |-> <<k1, k2>>,
                                         rebinding |-> FALSE, res |-> Ok(None)]]
    /\ UNCHANGED <<session_vars, queue, clients, rec, cleaning, factory, filters, dicts, conv>>

KeyTypes == {"None", "HASH", "RANGE"}

NextDefinitions ==
    \/ \E cls \in {"StringAttribute", "IntegerAttribute"}, k \in KeyTypes : NewAttribute(cls, k)
    \/ \E r1, r2 \in 1..MaxInstances : DefineTable(r1, r2)
    \/ \E k1, k2 \in KeyTypes : DefineDataclass(k1, k2)

Definitions == Init /\ [][NextDefinitions]_vars

----------------------------------------------------------------------------
(* Attribute.clean, one call at a time (base.py) *)

\* the validators that attributes are given: the values each rejects, and the
\* messages of its ValidationError
Validators ==
    { [name |-> "not_ten", rejects |-> {PyInt(10)}, messages |-> <<"not ten">>],
      [name |-> "small", rejects |-> {PyInt(10), PyInt(5)},
       messages |-> <<"too large", "not small">>] }

\* the validator lists of at most MaxValidators validators
ValidatorLists == UNION {[1..n -> Validators] : n \in 0..MaxValidators}

\* IntegerAttribute(null=null, validators=validators)
CleaningAttributes ==
    { [Attribute("IntegerAttribute", "age", "None", "None")
         EXCEPT !.null = null, !.validators = validators] :
      null \in BOOLEAN, validators \in ValidatorLists }

\* the values passed to Attribute.clean
CleaningInputs == {None, PyInt(10), PyInt(5), PyInt(1), PyStr("10"), PyStr("x")}

\* await attribute.clean(value) is called
CleaningInit ==
    /\ client = "client"
    /\ tables = {}
    /\ calls = [v \in Counted |-> 0]
    /\ item = NoItem
    /\ task = [t \in Tasks |-> NoCall]
    /\ filters = <<>>
    /\ dicts = <<>>
    /\ conv = NoConv
    /\ defs = NoDefs
    /\ factory = NoFactory
    /\ rec = NoRec
    /\ clients = NoClients
    /\ queue = NewQueue
    /\ \E a \in CleaningAttributes, raw \in CleaningInputs :
          cleaning = [pc |-> "clean_value", attribute |-> a, raw |-> raw, value |-> raw,
                      i |-> 1, errors |-> <<>>, log |-> <<>>, res |-> Ok(None)]

\* the call ends with res
CleaningDone(log, res) ==
    cleaning' = [cleaning EXCEPT !.pc = "done", !.log = log, !.res = res]

\* Attribute.clean: value = await self.clean_value(value)
CleanValueStep ==
    /\ cleaning.pc = "clean_value"
    /\ LET r == clean_value(cleaning.attribute, cleaning.value)
           log == Append(cleaning.log, "clean_value")
       IN IF r.ok
          THEN cleaning' = [cleaning EXCEPT !.pc = "validate", !.value = r.value, !.log = log]
          ELSE CleaningDone(log, r)
    /\ UNCHANGED <<session_vars, queue, clients, rec, filters, dicts, conv, defs, factory>>

\* Attribute.clean: self.validate(value)
ValidateStep ==
    /\ cleaning.pc = "validate"
    /\ LET r == validate(cleaning.attribute, cleaning.value)
           log == Append(cleaning.log, "validate")
       IN IF r.ok
          THEN cleaning' = [cleaning EXCEPT !.pc = "run_validators", !.log = log]
          ELSE CleaningDone(log, r)
    /\ UNCHANGED <<session_vars, queue, clients, rec, filters, dicts, conv, defs, factory>>

\* Attribute.run_validators: one pass of the loop
ValidatorStep ==
    /\ cleaning.pc = "run_validators"
    /\ cleaning.i <= Len(cleaning.attribute.validators)
    /\ LET validator == cleaning.attribute.validators[cleaning.i] IN
       cleaning' = [cleaning EXCEPT
                      !.i = @ + 1,
                      !.log = Append(@, validator.name),
                      !.errors = call_validator(@, validator, cleaning.value)]
    /\ UNCHANGED <<session_vars, queue, clients, rec, filters, dicts, conv, defs, factory>>

\* Attribute.run_validators after the loop, and the return of Attribute.clean
ValidatorsEnd ==
    /\ cleaning.pc = "run_validators"
    /\ cleaning.i > Len(cleaning.attribute.validators)
    /\ CleaningDone(cleaning.log, raise_errors(cleaning.errors, cleaning.value))
    /\ UNCHANGED <<session_vars, queue, clients, rec, filters, dicts, conv, defs, factory>>

NextCleaning == CleanValueStep \/ ValidateStep \/ ValidatorStep \/ ValidatorsEnd

Cleaning == CleaningInit /\ [][NextCleaning]_vars

----------------------------------------------------------------------------
(* A record instance: construction, field access and utils.clean *)

\* the record types whose instances are followed, and the fields accessed
RecordSchemas == {"Record", "DataRecord"}
RecordFields == {"id", "age"}
\* the values assigned to a field
AssignedValues == {None, PyInt(10), PyStr("10"), PyUUID(1)}

\* the attribute of a record type that is bound to a field
AttributeOf(schema, field) ==
    LET attrs == Schemas[schema]["__attributes__"] IN
    attrs[CHOOSE i \in DOMAIN attrs : attrs[i].attr_name = field]

\* record = Record(**kwargs)
NewRecord(schema, kwargs) ==
    /\ rec.item = NoItem
    /\ \E new \in IF Schemas[schema]["__descriptors__"]
                  THEN {NewTableItem(schema, kwargs)}
                  ELSE NewDataItems(schema, kwargs) :
          rec' = [rec EXCEPT !.item = new]
    /\ UNCHANGED <<session_vars, queue, clients, filters, dicts, conv, defs, factory, cleaning>>

\* record.field = value
Assign(field, value) ==
    /\ rec.item # NoItem
    /\ rec.ops < MaxOps
    /\ rec' = [item |-> set_attr(rec.item, AttributeOf(rec.item.schema, field), value),
               assigned |-> DictSet(rec.assigned, field, value),
               ops |-> rec.ops + 1,
               last |-> [op |-> "set", field |-> field, value |-> value]]
    /\ UNCHANGED <<session_vars, queue, clients, filters, dicts, conv, defs, factory, cleaning>>

\* record.field is read
Read(field) ==
    /\ rec.item # NoItem
    /\ rec.ops < MaxOps
    /\ \E value \in get_attr(rec.item, AttributeOf(rec.item.schema, field)) :
          rec' = [rec EXCEPT !.ops = @ + 1,
                             !.last = [op |-> "get", field |-> field, value |-> value]]
    /\ UNCHANGED <<session_vars, queue, clients, filters, dicts, conv, defs, factory, cleaning>>

\* await clean(record): the fields that clean sets are assigned by it
CleanRecord ==
    /\ rec.item # NoItem
    /\ rec.ops < MaxOps
    /\ \E c \in clean(rec.item) :
          rec' = [item |-> c.item, assigned |-> EmptyDict, ops |-> rec.ops + 1,
                  last |-> [op |-> "clean", before |-> rec.item, res |-> c.res]]
    /\ UNCHANGED <<session_vars, queue, clients, filters, dicts, conv, defs, factory, cleaning>>

NextRecords ==
    \/ \E schema \in RecordSchemas, kwargs \in ItemKwargs : NewRecord(schema, kwargs)
    \/ \E field \in RecordFields, value \in AssignedValues : Assign(field, value)
    \/ \E field \in RecordFields : Read(field)
    \/ CleanRecord

Records == Init /\ [][NextRecords]_vars

----------------------------------------------------------------------------
(* Session factory (factory.py) *)

\* the keys that a named AWS_CREDENTIALS configuration is given in the model
ConfigKeys == {"region", "region_name", "profile", "aws_access_key_id",
               "aws_secret_access_key", "aws_session_token"}

\* the configurations: each key left out or set to "foo"
Configs == UNION {[keys -> {PyStr("foo")}] : keys \in SUBSET ConfigKeys}

\* SessionFactory.defaults
defaults ==
    [k \in {"aws_access_key_id", "aws_secret_access_key", "aws_session_token"} |-> None]

\* self.get(name): the defaults updated with the named configuration
get_config(settings) ==
    [k \in (DOMAIN defaults) \cup (DOMAIN settings) |->
        IF k \in DOMAIN settings THEN settings[k] ELSE defaults[k]]

\* aiobotocore.get_session(): a session with nothing set
get_session == [_session_instance_vars |-> EmptyDict, _credentials |-> None]

\* session.set_config_variable(logical_name, value)
set_config_variable(session, logical_name, value) ==
    [session EXCEPT !._session_instance_vars = DictSet(@, logical_name, value)]

\* session.set_credentials(access_key, secret_key, token)
set_credentials(session, access_key, secret_key, token) ==
    [session EXCEPT !._credentials =
        [access_key |-> access_key, secret_key |-> secret_key, token |-> token]]

\* session.profile: the profile variable of the session, None when it has none
profile(session) ==
    IF "profile" \in DOMAIN session._session_instance_vars
    THEN session._session_instance_vars["profile"] ELSE None

\* the loop `for config_var in ("profile", "region")` from position i on
RECURSIVE set_config_vars(_, _, _)
set_config_vars(session, config, i) ==
    LET config_vars == <<"profile", "region">> IN
    IF i > Len(config_vars) THEN session
    ELSE set_config_vars(IF config_vars[i] \in DOMAIN config
                         THEN set_config_variable(session, config_vars[i], config[config_vars[i]])
                         ELSE session,
                         config, i + 1)

\* bool(value) of a configuration value
truthy(value) == value # None /\ value # PyStr("")

\* a create that sets credentials only when all three are configured
create_needs_all(settings) ==
    LET config == get_config(settings)
        session == set_config_vars(get_session, config, 1)
    IN IF truthy(config["aws_access_key_id"]) /\ truthy(config["aws_secret_access_key"])
          /\ truthy(config["aws_session_token"])
       THEN set_credentials(session, config["aws_access_key_id"],
                            config["aws_secret_access_key"], config["aws_session_token"])
       ELSE session

\* SessionFactory.create for the configuration named "default"
create(settings) ==
    LET config == get_config(settings)
        session == set_config_vars(get_session, config, 1)
    IN IF truthy(config["aws_access_key_id"]) \/ truthy(config["aws_secret_access_key"])
          \/ truthy(config["aws_session_token"])
       THEN set_credentials(session, config["aws_access_key_id"],
                            config["aws_secret_access_key"], config["aws_session_token"])
       ELSE session

\* with settings.modify() as context: context.AWS_CREDENTIALS = {"default": config}
ModifySettings(config) ==
    /\ factory' = [factory EXCEPT !.settings = config]
    /\ UNCHANGED <<session_vars, queue, clients, rec, cleaning, filters, dicts, conv, defs>>

\* session = SessionFactory("AWS_CREDENTIALS").create()
CreateSession ==
    /\ factory' = [factory EXCEPT !.created = [made |-> TRUE, settings |-> factory.settings,
                                               session |-> create(factory.settings)]]
    /\ UNCHANGED <<session_vars, queue, clients, rec, cleaning, filters, dicts, conv, defs>>

NextFactory ==
    \/ \E config \in Configs : ModifySettings(config)
    \/ CreateSession

Factory == Init /\ [][NextFactory]_vars

----------------------------------------------------------------------------
(* Client factory (factory.py) *)

\* the keyword arguments of a client: each left out or given
ClientArgs ==
    UNION { [keys -> {PyStr("a"), PyStr("b")}] : keys \in SUBSET {"region_name"} }
    \cup { [endpoint_url |-> PyStr("a")],
           [region_name |-> PyStr("b"), endpoint_url |-> PyStr("a")] }

\* the names of the service configurations
ServiceConfigNames == {"default", "other"}

\* the values of settings.AWS_SQS: named service configurations
ServiceSettings == UNION { [names -> ClientArgs] : names \in SUBSET ServiceConfigNames }

\* settings.AWS_SQS is what the application configured
ClientsInit ==
    /\ client = "client"
    /\ tables = {}
    /\ calls = [v \in Counted |-> 0]
    /\ item = NoItem
    /\ task = [t \in Tasks |-> NoCall]
    /\ filters = <<>>
    /\ dicts = <<>>
    /\ conv = NoConv
    /\ defs = NoDefs
    /\ factory = NoFactory
    /\ cleaning = NoCleaning
    /\ rec = NoRec
    /\ queue = NewQueue
    /\ \E service_settings \in ServiceSettings :
          clients = [NoClients EXCEPT !.AWS_SQS = service_settings,
                                      !.original = service_settings]

\* dict.update: d with the entries of other
update(d, other) ==
    [k \in (DOMAIN d) \cup (DOMAIN other) |-> IF k \in DOMAIN other THEN other[k] ELSE d[k]]

\* ClientFactory.create from `client_settings = ...` on: the dict that
\* self[service_name].get(...) returns is the stored one when the name is
\* configured, and update() changes it in place
ClientFactory_create(service_settings, service_config_name, client_args) ==
    LET name == IF service_config_name # "None" THEN service_config_name ELSE "default"
        client_settings == IF name \in DOMAIN service_settings
                           THEN service_settings[name] ELSE EmptyDict
        updated == update(client_settings, client_args)
    IN [service_settings |-> IF name \in DOMAIN service_settings
                             THEN [service_settings EXCEPT ![name] = updated]
                             ELSE service_settings,
        client_settings |-> updated]

\* client_factory.create("sqs", None, service_config_name, **client_args):
\* the session is created, self["sqs"] caches settings.AWS_SQS, and
\* session.create_client("sqs", **client_settings) is called
create_client(service_config_name, client_args) ==
    LET c == ClientFactory_create(clients.AWS_SQS, service_config_name, client_args) IN
    clients' = [clients EXCEPT
                  !.AWS_SQS = c.service_settings,
                  !.cached = TRUE,
                  !.last = [made |-> TRUE, session |-> create(factory.settings),
                            service_config_name |-> service_config_name,
                            client_args |-> client_args,
                            client_settings |-> c.client_settings]]

\* a caller creates a client of the service
CreateClient(service_config_name, client_args) ==
    /\ create_client(service_config_name, client_args)
    /\ UNCHANGED <<session_vars, queue, filters, dicts, conv, defs, factory, cleaning, rec>>

NextClients ==
    \E name \in ServiceConfigNames \cup {"None"}, client_args \in ClientArgs :
       CreateClient(name, client_args)

Clients == ClientsInit /\ [][NextClients]_vars

----------------------------------------------------------------------------
(* SQS queues (queues.py) *)

QueueNotFound == [type |-> "QueueNotFound"]
\* an exception that the receive handler raises
HandlerError == [type |-> "HandlerError"]
NonExistentQueue == ClientError("AWS.SimpleQueueService.NonExistentQueue")

\* the failures of a request to the queue service: client errors, and a
\* connection error, which is no ClientError
QueueFailures ==
    {Err(NonExistentQueue), Err(ClientError("AccessDenied")), Err(EndpointConnectionError)}

\* the Messages of a receive_message response, by the number of their body;
\* a response without messages has no "Messages" key
MessageLists == {<<>>, <<1>>, <<1, 2>>, <<2, 1>>}

\* the call of the queue object ends with res
QueueReturn(q, res) == queue' = [q EXCEPT !.pc = "idle", !.res = res]

\* SQSBase.open up to the await: create_client(...), client.get_queue_url(...)
SQSBeginOpen ==
    /\ queue.pc = "idle"
    /\ Len(queue.created) < MaxClients
    /\ create_client("None", EmptyDict)
    /\ queue' = [queue EXCEPT !.created = Append(@, "open"),
                              !.local = Len(queue.created) + 1,
                              !.before = queue._client,
                              !.pc = "open", !.op = "open", !.res = Ok(None)]
    /\ UNCHANGED <<session_vars, filters, dicts, conv, defs, factory, cleaning, rec>>

\* SQSBase.open: get_queue_url has answered; after a ClientError the call
\* awaits client.close()
SQSResumeOpen(r) ==
    /\ queue.pc = "open"
    /\ LET q == [queue EXCEPT !.resp = r] IN
       IF r.ok
       THEN QueueReturn([q EXCEPT !._client = queue.local, !._queue_url = r.value], Ok(None))
       ELSE IF r.exc.type = "ClientError"
       THEN queue' = [q EXCEPT !.pc = "open_close"]
       ELSE QueueReturn(q, r)
    /\ UNCHANGED <<session_vars, filters, dicts, conv, defs, factory, cleaning, rec, clients>>

\* SQSBase.open: what the except clause raises after client.close()
open_error(err) ==
    IF err.code = "AWS.SimpleQueueService.NonExistentQueue"
    THEN Err(QueueNotFound) ELSE Err(err)

\* SQSBase.open: client.close() has returned in the except clause
SQSResumeOpenClose ==
    /\ queue.pc = "open_close"
    /\ QueueReturn([queue EXCEPT !.created[queue.local] = "closed"],
                   open_error(queue.resp.exc))
    /\ UNCHANGED <<session_vars, filters, dicts, conv, defs, factory, cleaning, rec, clients>>

\* SQSBase.close up to the await, or all of it when there is no client
SQSBeginClose ==
    /\ queue.pc = "idle"
    /\ LET q == [queue EXCEPT !.op = "close", !.res = Ok(None)] IN
       IF queue._client # 0
       THEN queue' = [q EXCEPT !.pc = "close"]
       ELSE QueueReturn([q EXCEPT !._queue_url = "None"], Ok(None))
    /\ UNCHANGED <<session_vars, filters, dicts, conv, defs, factory, cleaning, rec, clients>>

\* SQSBase.close: self._client.close() has returned
SQSResumeClose ==
    /\ queue.pc = "close"
    /\ QueueReturn([queue EXCEPT !.created[queue._client] = "closed",
                                 !._client = 0, !._queue_url = "None"],
                   Ok(None))
    /\ UNCHANGED <<session_vars, filters, dicts, conv, defs, factory, cleaning, rec, clients>>

\* MessageReceiver.listen up to the first await
BeginListen ==
    /\ queue.pc = "idle"
    /\ LET q == [queue EXCEPT !.op = "listen", !.res = Ok(None), !.local = queue._client,
                              !.msgs = <<>>, !.received = <<>>, !.receives = 0,
                              !.log = <<>>] IN
       IF queue._client = 0
       THEN QueueReturn(q, Err(AttributeError("NoneType", "receive_message")))
       ELSE queue' = [q EXCEPT !.pc = "receive"]
    /\ UNCHANGED <<session_vars, filters, dicts, conv, defs, factory, cleaning, rec, clients>>

\* MessageReceiver.listen: receive_message has answered
ResumeReceive(r) ==
    /\ queue.pc = "receive"
    /\ r.ok => queue.receives < MaxReceives
    /\ IF ~r.ok THEN QueueReturn(queue, r)
       ELSE queue' = [queue EXCEPT !.receives = @ + 1,
                                   !.received = @ \o r.value,
                                   !.msgs = r.value,
                                   !.pc = IF r.value = <<>> THEN "receive" ELSE "handle"]
    /\ UNCHANGED <<session_vars, filters, dicts, conv, defs, factory, cleaning, rec, clients>>

\* a listen that deletes the message whatever the handler did
after_receive_always_delete(returned) == "delete"

\* MessageReceiver.listen: where the loop body goes when
\* `await self.receive(msg["Body"])` has returned or raised
after_receive(returned) == IF returned THEN "delete" ELSE "raise"

\* MessageReceiver.listen: self.receive(msg["Body"]) returns or raises for
\* the first of the messages left; after it client.delete_message is called
HandlerEnds(returned) ==
    /\ queue.pc = "handle"
    /\ LET m == Head(queue.msgs)
           handled == Append(queue.log,
                             [e |-> IF returned THEN "returned" ELSE "raised", m |-> m])
       IN IF after_receive(returned) = "delete"
          THEN queue' = [queue EXCEPT !.pc = "delete",
                                      !.log = Append(handled, [e |-> "delete", m |-> m])]
          ELSE QueueReturn([queue EXCEPT !.log = handled], Err(HandlerError))
    /\ UNCHANGED <<session_vars, filters, dicts, conv, defs, factory, cleaning, rec, clients>>

\* MessageReceiver.listen: delete_message has answered
ResumeDeleteMessage(r) ==
    /\ queue.pc = "delete"
    /\ IF ~r.ok THEN QueueReturn(queue, r)
       ELSE queue' = [queue EXCEPT !.msgs = Tail(@),
                                   !.pc = IF Tail(queue.msgs) = <<>> THEN "receive"
                                          ELSE "handle"]
    /\ UNCHANGED <<session_vars, filters, dicts, conv, defs, factory, cleaning, rec, clients>>

NextQueues ==
    \/ SQSBeginOpen
    \/ \E r \in {Ok("url")} \cup QueueFailures : SQSResumeOpen(r)
    \/ SQSResumeOpenClose
    \/ SQSBeginClose
    \/ SQSResumeClose
    \/ BeginListen
    \/ \E r \in {Ok(msgs) : msgs \in MessageLists} \cup QueueFailures : ResumeReceive(r)
    \/ \E returned \in BOOLEAN : HandlerEnds(returned)
    \/ \E r \in {Ok(None)} \cup QueueFailures : ResumeDeleteMessage(r)

Queues == Init /\ [][NextQueues]_vars

----------------------------------------------------------------------------
(* Properties *)

\* the table of a record type: its own name unless one was given when it was defined
TableNameOf(schema) ==
    IF HasClassAttr(schema, "__table_name__") THEN Schemas[schema]["__table_name__"]
    ELSE Schemas[schema]["__tablename__"]

\* caller t has finished a call of one of ops
Finished(t, ops) == task[t].pc = "idle" /\ task[t].op \in ops

NotFound == Err(ClientError("ResourceNotFoundException"))

\* the operations of a session other than close
Operations == {"describe_table", "create_table", "put_item", "delete_item", "iter", "count"}

\* C1: describe_table returns the table metadata when the transport succeeds,
\* raises TableNotFound when the transport reports resource-not-found, and
\* re-raises every other transport error unmodified.
C1_DescribeTableErrors ==
    \A t \in Tasks :
       Finished(t, {"describe_table"}) /\ Len(task[t].resps) = 1 =>
          LET r == task[t].resps[1] IN
          IF r.ok THEN task[t].res = Ok(r.value.Table)
          ELSE IF r = NotFound THEN task[t].res = Err(TableNotFound(task[t].args.table_name))
          ELSE task[t].res = r

\* C2: once close() has completed, every operation attempted on the session
\* fails with a SessionClosed error and sends no request to the transport.
C2_ClosedSessionRaisesSessionClosed ==
    \A t \in Tasks :
       client = "None" /\ task[t].op \in Operations =>
          /\ task[t].pc = "idle"
          /\ task[t].reqs = <<>>
          /\ ~task[t].res.ok
          /\ task[t].res.exc.type = "SessionClosed"

\* C3: with one caller, close() on a closed session is a no-op that raises
\* nothing, and however often close() and __aexit__ are called the transport's
\* close is called exactly once: by the first of them.
C3_CloseOnce ==
    /\ calls["close"] <= 1
    /\ client = "None" => calls["close"] = 1
    /\ \A t \in Tasks :
          Finished(t, {"close", "__aexit__"}) =>
             /\ task[t].res = Ok(None)
             /\ client = "None"
             /\ calls["close"] = 1

\* C3 witness: a close() made on an already closed session has returned
C3_Witness ==
    \E t \in Tasks :
       /\ Finished(t, {"close", "__aexit__"})
       /\ task[t].reqs = <<>>
       /\ task[t].res = Ok(None)
       /\ calls["close"] = 1

\* no response of the call of t is a failure the remote store did not cause
Served1(t) ==
    \A i \in 1..Len(task[t].resps) :
       task[t].resps[i].ok \/ task[t].resps[i] = NotFound
                           \/ task[t].resps[i] = Err(ClientError("ResourceInUseException"))

\* C4: create_table with check_exists=True returns a table description on
\* every call, and it sends a create request only when describe_table found no
\* table, so that a second call for the same schema sends none.
C4_CreateTwice ==
    \A t \in Tasks :
       /\ Finished(t, {"create_table"})
       /\ task[t].args.check_exists
       /\ Served1(t)
       /\ client = "client"
       => /\ task[t].res.ok
          /\ task[t].res.value.t = "dict"
          /\ Len(task[t].reqs) = 2 => task[t].resps[1] = NotFound
          /\ TableNameOf(task[t].args.table) \in tables

\* C5: create_table with check_exists=True never surfaces the transport's
\* already-exists error, also when two callers' requests interleave.
C5_NoAlreadyExists ==
    \A t \in Tasks :
       Finished(t, {"create_table"}) /\ task[t].args.check_exists =>
          task[t].res # Err(ClientError("ResourceInUseException"))

\* a value of attribute a of obj fails Attribute.clean with a ValidationError
FailsValidation(obj) ==
    LET attributes == Schemas[obj.schema]["__attributes__"] IN
    \E i \in 1..Len(attributes) : \E value \in get_attr(obj, attributes[i]) :
       LET r == AttributeClean(attributes[i], value) IN
       ~r.ok /\ r.exc.type = "ValidationError"

\* C6: put_item(record, clean=True) on a record that fails the validation
\* pipeline raises the aggregate validation failure and sends no request, so a
\* put request is only ever sent for a record that passed the whole clean pass.
C6_CleanBeforePut ==
    \A t \in Tasks :
       task[t].op = "put_item" /\ task[t].args.clean /\ FailsValidation(task[t].args.item) =>
          /\ task[t].pc = "idle"
          /\ task[t].reqs = <<>>
          /\ ~task[t].res.ok
          /\ task[t].res.exc.type = "ValidationError"
          /\ "message_dict" \in DOMAIN task[t].res.exc

\* C6 witness: a put_item with clean=True has raised the aggregate failure
\* without a request
C6_Witness ==
    \E t \in Tasks :
       /\ Finished(t, {"put_item"})
       /\ task[t].args.clean
       /\ FailsValidation(task[t].args.item)
       /\ task[t].reqs = <<>>
       /\ ~task[t].res.ok
       /\ task[t].res.exc.type = "ValidationError"
       /\ DOMAIN task[t].res.exc.message_dict = {"age"}

\* the wire values that to_wire gives for the current value of attribute a
WireValues(obj, a) ==
    { AttributeToDynamo(a, value).value : value \in get_attr(obj, a) }

\* document is a wire item of obj: one entry per attribute, keyed by wire name
IsWireItem(document, obj) ==
    LET attributes == Schemas[obj.schema]["__attributes__"] IN
    /\ DOMAIN document = {attributes[i].name : i \in 1..Len(attributes)}
    /\ Cardinality(DOMAIN document) = Len(attributes)
    /\ \A i \in 1..Len(attributes) :
          document[attributes[i].name] \in WireValues(obj, attributes[i])

\* C7: put_item on an open session submits, to the record type's table, one
\* wire item with exactly one entry per attribute, keyed by the wire name and
\* holding to_wire of the current value; a put_item of Record(age=10) with
\* clean=True transmits the keys id, created and age, with age as {"N": "10"}.
C7_PutSubmitsWireItem ==
    \A t \in Tasks :
       /\ task[t].op = "put_item"
       /\ client = "client"
       /\ ~FailsValidation(task[t].args.item)
       => /\ Len(task[t].reqs) = 1
          /\ task[t].reqs[1].verb = "put_item"
          /\ task[t].reqs[1].TableName = TableNameOf(task[t].args.item.schema)
          /\ task[t].pc = "put" => IsWireItem(task[t].reqs[1].Item, item)
          /\ (task[t].args.item = NewTableItem("Record", [age |-> PyInt(10)]) /\ task[t].args.clean) =>
                /\ DOMAIN task[t].reqs[1].Item = {"id", "created", "age"}
                /\ task[t].reqs[1].Item["age"] = [tag |-> "N", val |-> "10"]

\* C8: delete_item returns normally when the transport reports not-found, and
\* every other transport error of the delete request reaches the caller unchanged.
C8_DeleteNotFound ==
    \A t \in Tasks :
       Finished(t, {"delete_item"}) /\ Len(task[t].resps) = 1 =>
          LET r == task[t].resps[1] IN
          /\ r = NotFound => task[t].res = Ok(None)
          /\ (~r.ok /\ r # NotFound) => task[t].res = r

\* C8 witness: a delete_item whose request was answered not-found has returned
C8_Witness ==
    \E t \in Tasks :
       /\ Finished(t, {"delete_item"})
       /\ task[t].resps = <<NotFound>>
       /\ task[t].res = Ok(None)

\* the Key of a record: wire name to tagged wire value, for each key attribute
IsWireKey(key, obj) ==
    LET keys == Schemas[obj.schema]["__table_keys__"] IN
    /\ DOMAIN key = {keys[k].name : k \in DOMAIN keys}
    /\ \A k \in DOMAIN keys : key[keys[k].name] \in WireValues(obj, keys[k])

\* C9: the Key of a delete request maps the wire name of each key attribute of
\* the schema (Hash, and Range when declared) to its tagged wire value.
C9_DeleteKey ==
    \A t \in Tasks : task[t].pc = "delete" => IsWireKey(Pending(t).Key, item)

\* C10: executing a Scan or a Query, by iterating it or by count(), raises
\* TableNotFound when the transport reports not-found, and every other transport
\* error of the request reaches the caller unchanged.
C10_FilterNotFound ==
    \A t \in Tasks :
       Finished(t, {"iter", "count"}) /\ Len(task[t].resps) = 1 =>
          LET r == task[t].resps[1] IN
          /\ r = NotFound =>
                task[t].res = Err(TableNotFound(TableNameOf(task[t].args.filter.table)))
          /\ (~r.ok /\ r # NotFound) => task[t].res = r

\* C10 witness: a query that was iterated on a missing table raised TableNotFound
C10_Witness ==
    \E t \in Tasks :
       /\ Finished(t, {"iter"})
       /\ task[t].args.filter.type = "Query"
       /\ task[t].resps = <<NotFound>>
       /\ task[t].res = Err(TableNotFound("TestRecord"))

\* C11: get_item against a table that does not exist contacts the transport
\* with the wire key of the schema's key attributes and raises TableNotFound.
C11_GetItemNotFound ==
    \A t \in Tasks :
       /\ Finished(t, {"get_item"})
       /\ client = "client"
       /\ TableNameOf(task[t].args.table) \notin tables
       => /\ Len(task[t].reqs) = 1
          /\ task[t].reqs[1].verb = "get_item"
          /\ task[t].res = Err(TableNotFound(TableNameOf(task[t].args.table)))

\* C12: an iteration of a Filter ends only once the last page was fetched: it
\* requests the next page after every response that says more results remain,
\* and it yields the items of all the pages.
C12_IterationPages ==
    \A t \in Tasks :
       Finished(t, {"iter"}) /\ task[t].res.ok =>
          /\ \A i \in 1..Len(task[t].resps) :
                task[t].resps[i].ok /\ task[t].resps[i].value.LastEvaluatedKey # None
                   => i < Len(task[t].reqs)
          /\ task[t].resps[Len(task[t].resps)].value.LastEvaluatedKey = None

RECURSIVE ArgumentsOf(_, _)
\* the argument map that the first n calls of a chain give to a fresh filter
ArgumentsOf(made_by, n) ==
    IF n = 0 THEN EmptyDict
    ELSE DictSet(ArgumentsOf(made_by, n - 1), made_by[n].key, made_by[n].value)

\* C13: limit(n) and consistent(b) return a new Filter whose argument map is
\* the receiver's with the one entry updated, and no chain of calls changes the
\* receiver's map: the map of every Filter stays the one its own chain of calls
\* gave it, so a fresh scan stays without arguments and
\* scan.limit(10).consistent(True) has {Limit: 10, ConsistentRead: True}.
C13_FilterBuilder ==
    \A i \in DOMAIN filters :
       LET f == filters[i] IN
       /\ dicts[f.kwargs] = ArgumentsOf(f.made_by, Len(f.made_by))
       /\ f.made_by = <<>> => dicts[f.kwargs] = EmptyDict
       /\ f.made_by = <<[key |-> "Limit", value |-> PyInt(10)],
                        [key |-> "ConsistentRead", value |-> PyBool(TRUE)]>>
             => dicts[f.kwargs] = [Limit |-> PyInt(10), ConsistentRead |-> PyBool(TRUE)]

\* C13 witness: limit(10).consistent(True) was applied to a fresh scan, which
\* still has no arguments
C13_Witness ==
    /\ Len(filters) = 3
    /\ filters[1].type = "Scan" /\ dicts[filters[1].kwargs] = EmptyDict
    /\ filters[2].made_by = <<[key |-> "Limit", value |-> PyInt(10)]>>
    /\ dicts[filters[2].kwargs] = [Limit |-> PyInt(10)]
    /\ dicts[filters[3].kwargs] = [Limit |-> PyInt(10), ConsistentRead |-> PyBool(TRUE)]

\* the binding names of the attributes of obj whose value fails Attribute.clean
FailingAttributes(obj) ==
    LET attributes == Schemas[obj.schema]["__attributes__"] IN
    { attributes[i].attr_name :
        i \in { j \in 1..Len(attributes) :
                  \E value \in get_attr(obj, attributes[j]) :
                     LET r == AttributeClean(attributes[j], value) IN
                     ~r.ok /\ r.exc.type = "ValidationError" } }

\* C14: clean visits every attribute of the record even after an earlier one
\* failed (the attributes that pass hold their cleaned value afterwards); when
\* some failed it raises one ValidationError whose mapping has exactly one
\* entry per failing attribute, keyed by the binding name, and when none failed
\* it raises nothing.
C14_CleanAggregates ==
    \A t \in Tasks :
       Finished(t, {"put_item"}) /\ task[t].args.clean =>
          LET failing == FailingAttributes(task[t].args.item)
              attributes == Schemas[item.schema]["__attributes__"]
          IN /\ failing # {} =>
                   /\ ~task[t].res.ok
                   /\ task[t].res.exc.type = "ValidationError"
                   /\ "message_dict" \in DOMAIN task[t].res.exc
                   /\ DOMAIN task[t].res.exc.message_dict = failing
             /\ failing = {} => task[t].res.ok \/ task[t].res.exc.type # "ValidationError"
             /\ \A i \in 1..Len(attributes) :
                   attributes[i].attr_name \notin failing =>
                      \A value \in get_attr(item, attributes[i]) :
                         AttributeClean(attributes[i], value) = Ok(value)

\* C14 witness: a record with two invalid fields was cleaned, and the failure
\* has the two entries
C14_Witness ==
    \E t \in Tasks :
       /\ Finished(t, {"put_item"})
       /\ task[t].args.clean
       /\ task[t].args.item.schema = "DataRecord"
       /\ ~task[t].res.ok
       /\ task[t].res.exc.type = "ValidationError"
       /\ DOMAIN task[t].res.exc.message_dict = {"id", "age"}
       /\ item.d["created"].t = "datetime"

\* the list is a list of values that are not record instances
IsPlainList(value) ==
    /\ value # None /\ ~IsItem(value) /\ value.t = "list"
    /\ \A i \in DOMAIN value.items : ~IsItem(value.items[i])

\* the indexes, from 0, of the elements that the contained attribute rejects
FailingElements(a, value) ==
    { i \in 0..(Len(value.items) - 1) :
        ~AttributeClean(a.containing_attribute, value.items[i + 1]).ok }

\* C15: a List attribute cleans each element of a list with the contained
\* attribute; when some elements fail it raises one ValidationError keyed by
\* the index of each failing element, and when none fails it returns the list
\* in the same order.
C15_ListCleanValue ==
    (/\ conv.attribute # Unset
     /\ conv.attribute.cls = "ListAttribute"
     /\ conv.cleaned # Unset
     /\ IsPlainList(conv.value))
    => LET failing == FailingElements(conv.attribute, conv.value) IN
       /\ failing # {} =>
             /\ ~conv.cleaned.ok
             /\ conv.cleaned.exc.type = "ValidationError"
             /\ "message_dict" \in DOMAIN conv.cleaned.exc
             /\ DOMAIN conv.cleaned.exc.message_dict = failing
       /\ failing = {} =>
             /\ conv.cleaned.ok
             /\ conv.cleaned.value =
                   PyList([i \in DOMAIN conv.value.items |->
                             AttributeClean(conv.attribute.containing_attribute,
                                            conv.value.items[i]).value])

\* C16: for an attribute of every kind, from_dynamo(to_dynamo(v)) is v for every
\* value v of the attribute's type, and from_dynamo(to_dynamo(None)) is None.
C16_RoundTrip ==
    (conv.python # Unset) => conv.python = Ok(conv.value)

\* the exception is a structural error: InvalidKey or MultipleKeys, raised as
\* it is or as the cause of the error of the class statement
IsStructuralError(res) ==
    /\ ~res.ok
    /\ \/ res.exc.type \in {"InvalidKey", "MultipleKeys"}
       \/ /\ res.exc.type = "RuntimeError"
          /\ res.exc.cause.type \in {"InvalidKey", "MultipleKeys"}

\* C17: a record type whose definition gives two attributes the same key role
\* is rejected with a structural error at its definition, whether it is
\* defined by subclassing Table or by decorating a dataclass with table.
C17_OneAttributePerKeyRole ==
    (/\ defs.last.how # "None"
     /\ defs.last.key_types[1] # "None"
     /\ defs.last.key_types[1] = defs.last.key_types[2])
    => IsStructuralError(defs.last.res)

\* C18: a definition that binds an Attribute instance which is already bound
\* to a field name (of this or of another record type) raises a structural error.
C18_BindOnce ==
    (defs.last.how # "None" /\ defs.last.rebinding) => IsStructuralError(defs.last.res)

\* the create requests that caller t has sent
CreateRequests(t) ==
    IF task[t].op = "None" THEN {}
    ELSE {i \in DOMAIN task[t].reqs : task[t].reqs[i].verb = "create_table"}

\* the positions of the key attributes among the attributes of a record type
KeyPositions(schema) ==
    {i \in DOMAIN Schemas[schema]["__attributes__"] :
        Schemas[schema]["__attributes__"][i].key_type # "None"}

\* the j-th key attribute of a record type in declaration order
KeyAttribute(schema, j) ==
    LET K == KeyPositions(schema) IN
    Schemas[schema]["__attributes__"][CHOOSE i \in K : Cardinality({k \in K : k < i}) = j - 1]

C20_SessionFactoryRegion ==
    factory.created.made =>
       LET settings == factory.created.settings
           session == factory.created.session
       IN /\ "region_name" \in DOMAIN settings =>
                /\ "region" \in DOMAIN session._session_instance_vars
                /\ session._session_instance_vars["region"] = settings["region_name"]
          /\ settings = EmptyDict =>
                /\ session._session_instance_vars = EmptyDict
                /\ profile(session) = None

\* the configuration key of each field of a session's credentials
CredentialKeys ==
    [access_key |-> "aws_access_key_id", secret_key |-> "aws_secret_access_key",
     token |-> "aws_session_token"]

\* C21: when at least one of aws_access_key_id, aws_secret_access_key and
\* aws_session_token is configured, the session that SessionFactory.create
\* returns has credentials whose access_key, secret_key and token are the
\* configured values, and None for each one that was not configured.
C21_SessionFactoryCredentials ==
    factory.created.made =>
       LET settings == factory.created.settings
           session == factory.created.session
       IN (\E f \in DOMAIN CredentialKeys : CredentialKeys[f] \in DOMAIN settings) =>
             /\ session._credentials # None
             /\ \A f \in DOMAIN CredentialKeys :
                   session._credentials[f] =
                      IF CredentialKeys[f] \in DOMAIN settings
                      THEN settings[CredentialKeys[f]] ELSE None

\* C21 witness: a session was created from a configuration that gives the
\* secret key only, and its credentials carry it
C21_Witness ==
    /\ factory.created.made
    /\ factory.created.settings = [aws_secret_access_key |-> PyStr("foo")]
    /\ factory.created.session._credentials.secret_key = PyStr("foo")

RECURSIVE MessagesFrom(_, _, _)
\* the messages of the validators from position i on that reject value
MessagesFrom(validators, value, i) ==
    IF i > Len(validators) THEN <<>>
    ELSE (IF value \in validators[i].rejects THEN validators[i].messages ELSE <<>>)
         \o MessagesFrom(validators, value, i + 1)

\* s is an initial part of u
IsPrefix(s, u) == Len(s) <= Len(u) /\ \A k \in 1..Len(s) : s[k] = u[k]

\* C22: Attribute.clean calls clean_value, then the null check, then the
\* validators in declaration order; when clean_value fails, the failure is
\* the result and nothing else was called; otherwise, past the null check,
\* every validator was called, and the result is one failure with the
\* messages of all failing validators in order, or the value when none fails.
C22_CleanOrder ==
    cleaning.pc # "None" =>
       LET a == cleaning.attribute
           order == <<"clean_value", "validate">>
                    \o [k \in 1..Len(a.validators) |-> a.validators[k].name]
           coerced == clean_value(a, cleaning.raw)
       IN /\ IsPrefix(cleaning.log, order)
          /\ cleaning.pc = "done" =>
                IF ~coerced.ok
                THEN cleaning.log = <<"clean_value">> /\ cleaning.res = coerced
                ELSE IF ~a.null /\ coerced.value = None
                THEN Len(cleaning.log) = 2 /\ ~cleaning.res.ok
                ELSE LET messages == MessagesFrom(a.validators, coerced.value, 1) IN
                     /\ cleaning.log = order
                     /\ cleaning.res = IF messages = <<>> THEN Ok(coerced.value)
                                       ELSE Err(ValidationErrorList(messages))

\* C22 witness: a call with two validators of which both failed has ended
\* with the messages of the first followed by those of the second
C22_Witness ==
    /\ cleaning.pc = "done"
    /\ cleaning.raw = PyStr("10")
    /\ cleaning.log = <<"clean_value", "validate", "not_ten", "small">>
    /\ cleaning.res = Err(ValidationErrorList(<<"not ten", "too large", "not small">>))

\* the value stored for a field of a record instance differs between two
\* states of the instance
StoredDiffers(before, after, field) ==
    \/ (field \in DOMAIN before.d) # (field \in DOMAIN after.d)
    \/ field \in DOMAIN before.d /\ before.d[field] # after.d[field]

\* every value that a field of the instance can be read as is clean already
AlreadyClean(obj) ==
    \A i \in DOMAIN Schemas[obj.schema]["__attributes__"] :
       LET a == Schemas[obj.schema]["__attributes__"][i] IN
       \A value \in get_attr(obj, a) : AttributeClean(a, value) = Ok(value)

\* C23: utils.clean writes a cleaned value to a field only when it differs
\* from the value the field had, a field joins __updated__ exactly when its
\* stored value was changed, and cleaning a record whose values are all clean
\* already leaves the stored values and __updated__ as they were.
C23_CleanWritesChangesOnly ==
    rec.last.op = "clean" =>
       LET before == rec.last.before
           after == rec.item
           attrs == Schemas[before.schema]["__attributes__"]
       IN /\ \A i \in DOMAIN attrs :
                LET field == attrs[i].attr_name IN
                /\ StoredDiffers(before, after, field) =>
                      after.d[field] \notin get_attr(before, attrs[i])
                /\ Schemas[before.schema]["__descriptors__"] =>
                      /\ StoredDiffers(before, after, field) => field \in after.updated
                      /\ field \in after.updated \ before.updated =>
                            StoredDiffers(before, after, field)
          /\ AlreadyClean(before) => after = before

\* C25: a read of a field that was assigned a value, None included, returns
\* that value until the field is assigned again.
C25_ReadReturnsAssigned ==
    rec.last.op = "get" /\ rec.last.field \in DOMAIN rec.assigned =>
       rec.last.value = rec.assigned[rec.last.field]

\* C24: however two or more close() calls on one session overlap at the
\* await inside close(), the transport's close is called at most once.
C24_OverlappingCloseOnce ==
    Cardinality({t \in Tasks : task[t].op \in {"close", "__aexit__"}}) >= 2 =>
       calls["close"] <= 1

\* the put_item(record, clean=False) of caller t has sent its request and
\* has returned
PutUncleaned(t) ==
    /\ task[t].op = "put_item"
    /\ task[t].pc = "idle"
    /\ ~task[t].args.clean
    /\ Len(task[t].reqs) = 1
    /\ task[t].res.ok

\* C26: a field with a default factory that was never assigned takes its
\* default once, so the delete_item(record) that follows
\* put_item(record, clean=False) sends the key value that the put sent.
C26_DefaultTakenOnce ==
    [][\A t \in Tasks :
         (PutUncleaned(t) /\ task'[t].op = "delete_item" /\ Len(task'[t].reqs) = 1) =>
            LET hash == Schemas[item.schema]["__table_keys__"]["HASH"] IN
            task'[t].reqs[1].Key = task[t].reqs[1].Item[hash.name]]_vars

\* C27: ClientFactory.create passes to session.create_client the named
\* service configuration as it was configured, overridden by the client_args
\* of this call only, and the stored service configuration stays as it was.
C27_ClientArgsDoNotLeak ==
    clients.last.made =>
       LET given == clients.last.service_config_name
           name == IF given # "None" THEN given ELSE "default"
           configured == IF name \in DOMAIN clients.original
                         THEN clients.original[name] ELSE EmptyDict
       IN /\ clients.AWS_SQS = clients.original
          /\ DOMAIN clients.last.client_settings =
                (DOMAIN configured) \cup (DOMAIN clients.last.client_args)
          /\ \A k \in DOMAIN clients.last.client_settings :
                clients.last.client_settings[k] =
                   IF k \in DOMAIN clients.last.client_args
                   THEN clients.last.client_args[k] ELSE configured[k]

\* the messages that the handler was called for, in the order of the calls
Handled == SelectSeq(queue.log, LAMBDA x : x.e \in {"returned", "raised"})

\* C28: in MessageReceiver.listen a delete request for a message is issued
\* only right after the handler has returned for that message; once the
\* handler raises, nothing more is handled or deleted; and the messages are
\* handled in the order they were received.
C28_DeleteAfterHandled ==
    queue.op = "listen" =>
       /\ \A k \in DOMAIN queue.log :
             /\ queue.log[k].e = "delete" =>
                   k > 1 /\ queue.log[k - 1] = [e |-> "returned", m |-> queue.log[k].m]
             /\ queue.log[k].e = "raised" =>
                   k = Len(queue.log) /\ queue.pc = "idle" /\ ~queue.res.ok
       /\ Len(Handled) <= Len(queue.received)
       /\ \A k \in DOMAIN Handled : Handled[k].m = queue.received[k]

\* C28 witness: of two messages received together the first was handled and
\* deleted, the handler raised for the second, and the listen has ended
C28_Witness ==
    /\ queue.op = "listen"
    /\ queue.pc = "idle"
    /\ queue.received = <<2, 1>>
    /\ queue.log = <<[e |-> "returned", m |-> 2], [e |-> "delete", m |-> 2],
                     [e |-> "raised", m |-> 1]>>

\* C29: when the queue-URL lookup of open() fails, the client that this
\* open() created is closed before the error leaves open(), an unopened
\* queue object stays without client and queue URL, a non-existent queue is
\* raised as QueueNotFound and any other failure as it came.
C29_OpenFailureClosesClient ==
    (queue.op = "open" /\ queue.pc = "idle" /\ ~queue.res.ok) =>
       /\ queue.created[queue.local] = "closed"
       /\ queue._client # queue.local
       /\ queue.before = 0 => queue._client = 0 /\ queue._queue_url = "None"
       /\ queue.res = IF queue.resp = Err(NonExistentQueue)
                      THEN Err(QueueNotFound) ELSE queue.resp

\* C30: when a close() of the queue object has completed, every client that
\* its open() calls created is closed, and it holds no client and no queue URL.
C30_NoClientLeak ==
    (queue.op = "close" /\ queue.pc = "idle") =>
       /\ \A i \in DOMAIN queue.created : queue.created[i] = "closed"
       /\ queue._client = 0
       /\ queue._queue_url = "None"

====
